---- MODULE Spec2Model ----
(***************************************************************************)
(* Model of the mesh protocol ingestion layer of groundwave-ai.             *)
(*                                                                         *)
(*   Spec       the transport object (MeshtasticInterface or the           *)
(*              MeshCoreInterface stub) with its three execution contexts:  *)
(*              the caller's thread (connect / disconnect / send_message),  *)
(*              the event source's thread (pubsub callbacks) and the        *)
(*              reconnection worker threads started by _start_reconnect.    *)
(*   QuerySpec  Spec with the caller's is_connected() and send_message()   *)
(*              calls interleaved.                                          *)
(*   ChunkSpec  MeshInterface.send_chunked_message as a step machine over   *)
(*              a log of the send_message calls and delays it makes.        *)
(*   NodeSpec   a connected device transport: inbound packets, node update  *)
(*              events, the clock, the node registry and its readers.       *)
(*   DispatchSpec  observer registration and the three dispatch loops.      *)
(*   BufferSpec a started regional MQTT service receiving text packets.     *)
(*   RegionalSpec  the regional MQTT service: start / stop, its worker      *)
(*              thread, the broker callbacks and the packet handler.        *)
(*   StartupSpec   the application's lifespan around the transport.         *)
(*   CryptoSpec    decrypt_packet on ciphertexts of a sender.               *)
(*   LoadSpec   connect() loading the node database of its session.         *)
(*   LockSpec   the regional service's packet handler statement by          *)
(*              statement, with the accessors contending for its lock.      *)
(*   RegistrySpec  the node registry over connect, disconnect, link loss,   *)
(*              reconnection, inbound packets and node update events.       *)
(*   NotifySpec _set_connection_state called from two threads.              *)
(***************************************************************************)
EXTENDS Integers, Sequences, FiniteSets, TLC

\* ------------------------------------------------------------------ bounds
MaxWorkers == 2
MaxTextLen == 10
MaxChunkSize == 8
MaxTicks == 2
MaxObservers == 3
MaxTexts == 102
MaxPackets == 2
MaxPlainLen == 2
MaxDbLen == 2

\* ------------------------------------------------------- program constants
MaxReconnectAttempts == 20
OnlineWindow == 7200
MaxMessages == 100

DISCONNECTED == "disconnected"
CONNECTING == "connecting"
CONNECTED == "connected"
ERROR == "error"
ConnectionState == {DISCONNECTED, CONNECTING, CONNECTED, ERROR}

\* the four pubsub topics connect() subscribes handlers to
Topics ==
  {"meshtastic.receive", "meshtastic.connection.established",
   "meshtastic.node.updated", "meshtastic.connection.lost"}

Protocols == {"meshtastic", "meshcore"}
ConnectionTypes == {"serial", "ble"}
KnownConnectionTypes == {"serial", "tcp"}
NodeIds == {"!0a1b2c3d"}
LocalId == "!00000001"
None == "None"
Workers == 1..MaxWorkers

VARIABLES
  protocol,         \* config.mesh.protocol: which transport class was built
  connection_type,  \* MeshtasticInterface.connection_type
  state,            \* MeshInterface._state
  interface,        \* _interface: None, or the handle tagged by who opened it
  running,          \* _running
  reconnecting,     \* _reconnecting
  subscribed,       \* topics on which this object's handlers are subscribed
  my_node_id,       \* _my_node_id
  nodes,            \* keys of _nodes (the records themselves: registry)
  mainPc,           \* position of the caller's thread inside connect()
  lastCall,         \* the caller's last call on the transport and how it ended
  probed,           \* what that call's is_connected() probe of the session found
  sent,             \* how that call's sendText on the session ended, if made
  workers,          \* reconnect_loop threads: position and local "attempts"
  text, chunk_size, destination, channel, want_ack,   \* send_chunked_message arguments
  chunks, idx, calls, result, cpc,                     \* send_chunked_message locals and log
  now,              \* datetime.now().timestamp(), in seconds
  ticks,            \* how many times the clock has advanced
  last_heard,       \* _last_heard: node id -> time of the last sample
  registry,         \* _nodes: node id -> MeshNode
  held,             \* the dict a caller got from the nodes accessor
  inbox,            \* the MeshMessages the last handled packet dispatched
  observers,        \* the three callback lists, in registration order
  delivered,        \* the observer invocations of the last dispatch
  mqtt_running,     \* RegionalMQTTService._running
  mqtt_client,      \* RegionalMQTTService._client: None or the paho client
  mqtt_thread,      \* RegionalMQTTService._thread and where _run_loop stands
  mqtt_connected,   \* RegionalMQTTService._connected
  messages_received, decoded_ok, decoded_fail, text_messages_received,  \* its counters
  regional_nodes,   \* RegionalMQTTService._nodes: node id -> RegionalNode
  regional_messages,\* RegionalMQTTService._messages, oldest first
  client_calls,     \* calls the last connect / disconnect handler made on the client
  stopPc,           \* position of the caller's thread inside stop()
  mqttLastCall,     \* the caller's last call on the service and how it ended
  app,              \* position of the application's lifespan (main.py)
  plaintext,        \* the bytes a sender encrypted
  packet_id, from_id,   \* the packet id and sender id the sender built its nonce from
  encrypted_data,   \* decrypt_packet's argument: the ciphertext
  key,              \* decrypt_packet's argument: the key
  call_packet_id, call_from_id,   \* decrypt_packet's arguments: the ids
  nonce,            \* decrypt_packet's local: the nonce it built
  decrypted,        \* decrypt_packet's result
  cryptoPc,         \* plain, cipher (encrypted), done (decrypt_packet returned)
  session_nodes,    \* _interface.nodes of the session connect() opens, in dict order
  table_lock,       \* RegionalMQTTService._lock: free, or which thread holds it
  handlerPc,        \* position of the worker thread inside _on_message
  handling,         \* the decoded packet _on_message is working on
  readerPc,         \* the accessor a request thread is inside, holding the lock
  observed,         \* what that thread's last accessor call found
  notifying,        \* per thread: the _set_connection_state call it is inside
  last_delivered    \* per connection observer: the last state it was called with

transportVars ==
  <<protocol, connection_type, state, interface, running, reconnecting,
    subscribed, my_node_id, nodes, mainPc, lastCall, probed, sent, workers>>
queryVars == <<probed, sent>>
chunkVars ==
  <<text, chunk_size, destination, channel, want_ack, chunks, idx, calls, result, cpc>>
eventVars ==
  <<now, ticks, last_heard, registry, held, inbox, observers, delivered>>
regionalVars ==
  <<mqtt_running, mqtt_client, mqtt_thread, mqtt_connected, messages_received,
    decoded_ok, decoded_fail, text_messages_received, regional_nodes,
    regional_messages, client_calls, stopPc, mqttLastCall>>
counters == <<messages_received, decoded_ok, decoded_fail, text_messages_received>>
appVars == <<app>>
cryptoVars ==
  <<plaintext, packet_id, from_id, encrypted_data, key, call_packet_id,
    call_from_id, nonce, decrypted, cryptoPc>>
sessionVars == <<session_nodes>>
lockVars == <<table_lock, handlerPc, handling, readerPc, observed>>
notifyVars == <<notifying, last_delivered>>
serviceVars == <<regionalVars, appVars, cryptoVars, sessionVars, lockVars, notifyVars>>
vars == <<transportVars, chunkVars, eventVars, serviceVars>>

IdleWorker == [pc |-> "idle", attempts |-> 0]

\* state right after MeshInterface.__init__ / MeshtasticInterface.__init__
TransportFresh ==
  /\ state = DISCONNECTED
  /\ interface = None
  /\ running = FALSE
  /\ reconnecting = FALSE
  /\ subscribed = {}
  /\ my_node_id = None
  /\ nodes = {}
  /\ mainPc = "idle"
  /\ lastCall = "none"
  /\ probed = "none"
  /\ sent = "none"
  /\ workers = [w \in Workers |-> IdleWorker]

ChunkIdle ==
  /\ text = <<>>
  /\ chunk_size = 1
  /\ destination = None
  /\ channel = 0
  /\ want_ack = FALSE
  /\ chunks = <<>>
  /\ idx = 0
  /\ calls = <<>>
  /\ result = "none"
  /\ cpc = "start"

EventTypes == {"message", "node", "connection"}
NoSample == -1

\* MeshInterface.__init__ (70-74) and MeshtasticInterface.__init__ (43):
\* empty registry, empty last-heard map, no observer registered
EventIdle ==
  /\ now = 1
  /\ ticks = 0
  /\ last_heard = [id \in NodeIds |-> NoSample]
  /\ registry = <<>>
  /\ held = <<>>
  /\ inbox = <<>>
  /\ observers = [t \in EventTypes |-> <<>>]
  /\ delivered = <<>>

\* the threads that call _set_connection_state while a session is being
\* re-established: a reconnect_loop thread and the session's callback thread
NotifyThreads == {"worker", "callback"}

\* no thread is inside _set_connection_state, no observer has been called
NotifyIdle ==
  /\ notifying = [t \in NotifyThreads |-> <<>>]
  /\ last_delivered = <<>>

\* 149: the lock as __init__ makes it; no thread is inside the service
LockIdle ==
  /\ table_lock = "free"
  /\ handlerPc = "idle"
  /\ handling = <<>>
  /\ readerPc = "idle"
  /\ observed = <<>>

\* RegionalMQTTService.__init__ (127-158)
RegionalIdle ==
  /\ LockIdle
  /\ mqtt_running = FALSE
  /\ mqtt_client = None
  /\ mqtt_thread = "none"
  /\ mqtt_connected = FALSE
  /\ messages_received = 0
  /\ decoded_ok = 0
  /\ decoded_fail = 0
  /\ text_messages_received = 0
  /\ regional_nodes = <<>>
  /\ regional_messages = <<>>
  /\ client_calls = <<>>
  /\ stopPc = "idle"
  /\ mqttLastCall = "none"

\* no decrypt_packet call made
CryptoIdle ==
  /\ plaintext = <<>>
  /\ packet_id = <<0, 0>>
  /\ from_id = <<0, 0>>
  /\ encrypted_data = <<>>
  /\ key = <<>>
  /\ call_packet_id = <<0, 0>>
  /\ call_from_id = <<0, 0>>
  /\ nonce = <<>>
  /\ decrypted = <<>>
  /\ cryptoPc = "plain"

ServiceIdle ==
  /\ RegionalIdle
  /\ app = "startup"
  /\ NotifyIdle
  /\ CryptoIdle
  /\ session_nodes = <<>>

Init ==
  /\ protocol \in Protocols
  /\ connection_type \in ConnectionTypes
  /\ TransportFresh
  /\ ChunkIdle
  /\ EventIdle
  /\ ServiceIdle

IsDevice == protocol = "meshtastic"
IsCore == protocol = "meshcore"

\* ---------------------------------------------------------------- connect
\* MeshtasticInterface.connect, line 48: state := CONNECTING, then the open
ConnectBegin ==
  /\ IsDevice
  /\ mainPc = "idle"
  /\ state' = CONNECTING
  /\ mainPc' = "connect_open"
  /\ lastCall' = "connect"
  /\ probed' = "none"
  /\ sent' = "none"
  /\ UNCHANGED <<protocol, connection_type, interface, running, reconnecting,
                 subscribed, my_node_id, nodes, workers>>

\* lines 57-74: open the session; an unknown connection type or a failing
\* open raises, and the except block (95-98) sets ERROR and returns False
ConnectOpen ==
  /\ mainPc = "connect_open"
  /\ \E ok \in BOOLEAN :
       IF ok /\ connection_type \in KnownConnectionTypes
         THEN /\ interface' = "main"
              /\ mainPc' = "connect_setup"
              /\ UNCHANGED <<state, lastCall>>
         ELSE /\ state' = ERROR
              /\ mainPc' = "idle"
              /\ lastCall' = "connect_false"
              /\ UNCHANGED interface
  /\ UNCHANGED <<protocol, connection_type, running, reconnecting,
                 subscribed, my_node_id, nodes, workers>>

\* lines 77-90: resolve the local id, subscribe the four handlers, load the
\* nodes of the session, set _running; self._interface read as None (dropped
\* by _on_disconnect meanwhile) raises AttributeError -> except block
ConnectSetup ==
  /\ mainPc = "connect_setup"
  /\ IF interface = None
       THEN /\ state' = ERROR
            /\ mainPc' = "idle"
            /\ lastCall' = "connect_false"
            /\ UNCHANGED <<my_node_id, subscribed, nodes, running>>
       ELSE /\ \E hasInfo \in BOOLEAN, loaded \in SUBSET NodeIds :
                 /\ my_node_id' = IF hasInfo THEN LocalId ELSE my_node_id
                 /\ nodes' = nodes \cup loaded
            /\ subscribed' = subscribed \cup Topics
            /\ running' = TRUE
            /\ mainPc' = "connect_finish"
            /\ UNCHANGED <<state, lastCall>>
  /\ UNCHANGED <<protocol, connection_type, interface, reconnecting,
                 workers>>

\* lines 91-93: state := CONNECTED, return True
ConnectFinish ==
  /\ mainPc = "connect_finish"
  /\ state' = CONNECTED
  /\ mainPc' = "idle"
  /\ lastCall' = "connect_true"
  /\ UNCHANGED <<protocol, connection_type, interface, running, reconnecting,
                 subscribed, my_node_id, nodes, workers>>

\* MeshCoreInterface.connect, line 53: state := CONNECTING
CoreConnectBegin ==
  /\ IsCore
  /\ mainPc = "idle"
  /\ state' = CONNECTING
  /\ mainPc' = "core_raise"
  /\ lastCall' = "connect"
  /\ probed' = "none"
  /\ sent' = "none"
  /\ UNCHANGED <<protocol, connection_type, interface, running, reconnecting,
                 subscribed, my_node_id, nodes, workers>>

\* MeshCoreInterface.connect, lines 57-61: raise NotImplementedError
CoreConnectRaise ==
  /\ mainPc = "core_raise"
  /\ mainPc' = "idle"
  /\ lastCall' = "connect_raised"
  /\ UNCHANGED <<protocol, connection_type, state, interface, running,
                 reconnecting, subscribed, my_node_id, nodes, workers>>

\* ------------------------------------------------------------- disconnect
\* a disconnect() that also cancels a running reconnection loop
Disconnect_ClearsFlag ==
  /\ mainPc = "idle"
  /\ running' = FALSE
  /\ IF IsDevice /\ interface # None
       THEN /\ subscribed' = subscribed \ Topics
            /\ interface' = None
       ELSE UNCHANGED <<subscribed, interface>>
  /\ state' = DISCONNECTED
  /\ reconnecting' = FALSE
  /\ lastCall' = "disconnect"
  /\ probed' = "none"
  /\ sent' = "none"
  /\ UNCHANGED <<protocol, connection_type, my_node_id, nodes,
                 mainPc, workers>>

\* MeshtasticInterface.disconnect (100-120) / MeshCoreInterface.disconnect
\* (63-70; its _interface is never set, so nothing is closed)
Disconnect ==
  /\ mainPc = "idle"
  /\ running' = FALSE
  /\ IF IsDevice /\ interface # None
       THEN /\ subscribed' = subscribed \ Topics
            /\ interface' = None
       ELSE UNCHANGED <<subscribed, interface>>
  /\ state' = DISCONNECTED
  /\ lastCall' = "disconnect"
  /\ probed' = "none"
  /\ sent' = "none"
  /\ UNCHANGED <<protocol, connection_type, reconnecting, my_node_id, nodes,
                 mainPc, workers>>

\* ------------------------------------------------- reconnection worker
FreeWorkers == {w \in Workers : workers[w].pc = "idle"}
ActiveWorkers == {w \in Workers : workers[w].pc # "idle"}
LowestFree == CHOOSE w \in FreeWorkers : \A v \in FreeWorkers : w <= v

\* _start_reconnect (340-346, 416-417): no-op while _reconnecting is set,
\* otherwise set the flag and start one reconnect_loop thread
StartReconnect ==
  IF reconnecting
    THEN UNCHANGED <<reconnecting, workers>>
    ELSE /\ reconnecting' = TRUE
         /\ workers' = [workers EXCEPT ![LowestFree] = [pc |-> "top", attempts |-> 0]]

\* _on_disconnect (322-338), delivered by the event source to the handler
\* subscribed on "meshtastic.connection.lost" while a session is held.
\* The third conjunct caps the number of live threads at MaxWorkers.
OnDisconnect ==
  /\ "meshtastic.connection.lost" \in subscribed
  /\ interface # None
  /\ reconnecting \/ FreeWorkers # {}
  /\ state' = DISCONNECTED
  /\ running' = FALSE
  /\ interface' = None
  /\ IF ~reconnecting THEN StartReconnect ELSE UNCHANGED <<reconnecting, workers>>
  /\ UNCHANGED <<protocol, connection_type, subscribed, my_node_id, nodes,
                 mainPc, lastCall>>

\* _on_connection (299-302), the handler of "meshtastic.connection.established"
OnConnection ==
  /\ "meshtastic.connection.established" \in subscribed
  /\ interface # None
  /\ state' = CONNECTED
  /\ UNCHANGED <<protocol, connection_type, interface, running, reconnecting,
                 subscribed, my_node_id, nodes, mainPc, lastCall, workers>>

\* WorkerLoop with the while test off by one (attempts <= max)
WorkerLoop_OffByOne(w) ==
  /\ workers[w].pc = "top"
  /\ IF workers[w].attempts <= MaxReconnectAttempts /\ reconnecting
       THEN /\ workers' = [workers EXCEPT ![w] =
                 [pc |-> "sleep", attempts |-> workers[w].attempts + 1]]
            /\ state' = CONNECTING
       ELSE /\ workers' = [workers EXCEPT ![w].pc = "exhausted"]
            /\ UNCHANGED state
  /\ UNCHANGED <<protocol, connection_type, interface, running, reconnecting,
                 subscribed, my_node_id, nodes, mainPc, lastCall>>

\* reconnect_loop, 352-358: the while test, attempts += 1, state := CONNECTING,
\* then the thread sleeps; a false test leaves the loop for line 412
WorkerLoop(w) ==
  /\ workers[w].pc = "top"
  /\ IF workers[w].attempts < MaxReconnectAttempts /\ reconnecting
       THEN /\ workers' = [workers EXCEPT ![w] =
                 [pc |-> "sleep", attempts |-> workers[w].attempts + 1]]
            /\ state' = CONNECTING
       ELSE /\ workers' = [workers EXCEPT ![w].pc = "exhausted"]
            /\ UNCHANGED state
  /\ UNCHANGED <<protocol, connection_type, interface, running, reconnecting,
                 subscribed, my_node_id, nodes, mainPc, lastCall>>

\* reconnect_loop, 358-361: time.sleep returns; break if the flag was cleared
WorkerWake(w) ==
  /\ workers[w].pc = "sleep"
  /\ workers' = [workers EXCEPT ![w].pc = IF reconnecting THEN "open" ELSE "exhausted"]
  /\ UNCHANGED <<protocol, connection_type, state, interface, running, reconnecting,
                 subscribed, my_node_id, nodes, mainPc, lastCall>>

\* reconnect_loop, 370-381: open the session. A failing open raises into the
\* except block (402-409), which closes and drops whatever handle is held.
\* An unknown connection type opens nothing and falls through to line 384.
WorkerOpen(w) ==
  /\ workers[w].pc = "open"
  /\ IF connection_type \in KnownConnectionTypes
       THEN \E ok \in BOOLEAN :
              IF ok
                THEN /\ interface' = "worker"
                     /\ workers' = [workers EXCEPT ![w].pc = "setup"]
                ELSE /\ interface' = None
                     /\ workers' = [workers EXCEPT ![w].pc = "top"]
       ELSE /\ workers' = [workers EXCEPT ![w].pc = "setup"]
            /\ UNCHANGED interface
  /\ UNCHANGED <<protocol, connection_type, state, running, reconnecting,
                 subscribed, my_node_id, nodes, mainPc, lastCall>>

\* reconnect_loop, 384-397: resolve the local id, re-subscribe, reload the
\* nodes, _running := True, _reconnecting := False. self._interface read as
\* None raises AttributeError into the except block, back to the while test.
\* The local "attempts" is not read after line 397.
WorkerSetup(w) ==
  /\ workers[w].pc = "setup"
  /\ IF interface = None
       THEN /\ workers' = [workers EXCEPT ![w].pc = "top"]
            /\ UNCHANGED <<my_node_id, subscribed, nodes, running, reconnecting>>
       ELSE /\ \E hasInfo \in BOOLEAN, loaded \in SUBSET NodeIds :
                 /\ my_node_id' = IF hasInfo THEN LocalId ELSE my_node_id
                 /\ nodes' = nodes \cup loaded
            /\ subscribed' = subscribed \cup Topics
            /\ running' = TRUE
            /\ reconnecting' = FALSE
            /\ workers' = [workers EXCEPT ![w] = [pc |-> "finish", attempts |-> 0]]
  /\ UNCHANGED <<protocol, connection_type, state, interface, mainPc, lastCall>>

\* reconnect_loop, 398-400: state := CONNECTED, return (the thread ends)
WorkerFinish(w) ==
  /\ workers[w].pc = "finish"
  /\ state' = CONNECTED
  /\ workers' = [workers EXCEPT ![w] = IdleWorker]
  /\ UNCHANGED <<protocol, connection_type, interface, running, reconnecting,
                 subscribed, my_node_id, nodes, mainPc, lastCall>>

\* WorkerGiveUp that forgets to clear the flag
WorkerGiveUp_KeepsFlag(w) ==
  /\ workers[w].pc = "exhausted"
  /\ workers' = [workers EXCEPT ![w].pc = "fail"]
  /\ UNCHANGED <<protocol, connection_type, state, interface, running, reconnecting,
                 subscribed, my_node_id, nodes, mainPc, lastCall>>

\* reconnect_loop, 412: _reconnecting := False after the loop
WorkerGiveUp(w) ==
  /\ workers[w].pc = "exhausted"
  /\ reconnecting' = FALSE
  /\ workers' = [workers EXCEPT ![w].pc = "fail"]
  /\ UNCHANGED <<protocol, connection_type, state, interface, running,
                 subscribed, my_node_id, nodes, mainPc, lastCall>>

\* reconnect_loop, 413-414: state := ERROR (the thread ends)
WorkerError(w) ==
  /\ workers[w].pc = "fail"
  /\ state' = ERROR
  /\ workers' = [workers EXCEPT ![w] = IdleWorker]
  /\ UNCHANGED <<protocol, connection_type, interface, running, reconnecting,
                 subscribed, my_node_id, nodes, mainPc, lastCall>>

WorkerStep(w) ==
  \/ WorkerLoop(w)
  \/ WorkerWake(w)
  \/ WorkerOpen(w)
  \/ WorkerSetup(w)
  \/ WorkerFinish(w)
  \/ WorkerGiveUp(w)
  \/ WorkerError(w)

\* ------------------------------------------- is_connected, send_message
\* what probing the held session can find: it succeeds (the reader thread is
\* alive, 130-132, or the fallback read of .nodes returns, 134-135), the
\* reader thread is dead (132), or one of these accesses raises (137-138)
Probes == {"succeeds", "reader_dead", "raises"}

\* is_connected with every held and running session reported connected,
\* whatever the probe finds
IsConnected_NoProbe(p) ==
  IF interface = None \/ ~running
    THEN FALSE
    ELSE TRUE

\* MeshtasticInterface.is_connected (122-138) for probe outcome p;
\* MeshCoreInterface.is_connected (72-74) has no probe
IsConnected(p) ==
  IF interface = None \/ ~running
    THEN FALSE
    ELSE IF IsDevice THEN p = "succeeds" ELSE TRUE

\* the probe runs only on the device transport, past the check of line 124
Probed(p) == IF IsDevice /\ interface # None /\ running THEN p ELSE "none"

\* a call of is_connected() by the caller's thread
IsConnectedCall ==
  /\ mainPc = "idle"
  /\ \E p \in Probes :
       /\ lastCall' = IF IsConnected(p) THEN "is_connected_true"
                                        ELSE "is_connected_false"
       /\ probed' = Probed(p)
  /\ sent' = "none"
  /\ UNCHANGED <<protocol, connection_type, state, interface, running,
                 reconnecting, subscribed, my_node_id, nodes, mainPc, workers>>

\* send_message with the failure of sendText not caught
SendMessage_Uncaught ==
  /\ mainPc = "idle"
  /\ \E p \in Probes :
       IF ~IsConnected(p)
         THEN lastCall' = "send_false" /\ sent' = "none"
         ELSE IF IsDevice
                THEN \E ok \in BOOLEAN :
                       IF ok THEN lastCall' = "send_true" /\ sent' = "ok"
                             ELSE lastCall' = "send_raised" /\ sent' = "failed"
                ELSE lastCall' = "send_raised" /\ sent' = "none"
  /\ probed' = "none"
  /\ UNCHANGED <<protocol, connection_type, state, interface, running,
                 reconnecting, subscribed, my_node_id, nodes, mainPc, workers>>

\* MeshtasticInterface.send_message (140-174): False when is_connected() is
\* false; otherwise sendText, True when it returned and False when it raised.
\* MeshCoreInterface.send_message (76-95): False when not connected,
\* otherwise NotImplementedError
SendMessage ==
  /\ mainPc = "idle"
  /\ \E p \in Probes :
       IF ~IsConnected(p)
         THEN lastCall' = "send_false" /\ sent' = "none"
         ELSE IF IsDevice
                THEN \E ok \in BOOLEAN :
                       IF ok THEN lastCall' = "send_true" /\ sent' = "ok"
                             ELSE lastCall' = "send_false" /\ sent' = "failed"
                ELSE lastCall' = "send_raised" /\ sent' = "none"
  /\ probed' = "none"
  /\ UNCHANGED <<protocol, connection_type, state, interface, running,
                 reconnecting, subscribed, my_node_id, nodes, mainPc, workers>>

\* ------------------------------------------------ send_chunked_message
Chars == {"a", "b"}
Destinations == {None, "!0a1b2c3d"}
Channels == {0, 1}

Min(a, b) == IF a < b THEN a ELSE b
Max(a, b) == IF a > b THEN a ELSE b

\* Python s[a:b] for 0 <= a <= b
PySlice(s, a, b) == SubSeq(s, a + 1, Min(b, Len(s)))

\* Python s[:k]; a negative k counts from the end
PyPrefix(s, k) ==
  IF k >= 0 THEN SubSeq(s, 1, Min(k, Len(s)))
            ELSE SubSeq(s, 1, Max(Len(s) + k, 0))

Digits == <<"0", "1", "2", "3", "4", "5", "6", "7", "8", "9">>

\* str(n) for n >= 0, as a sequence of characters
RECURSIVE Str(_)
Str(n) == IF n < 10 THEN <<Digits[n + 1]>>
                    ELSE Str(n \div 10) \o <<Digits[(n % 10) + 1]>>

\* the prefix with the loop index not advanced: "[i/n] " counted from 0
Marker_ZeroBased(i, n) == <<"[">> \o Str(i) \o <<"/">> \o Str(n) \o <<"]", " ">>

\* base.py 169: prefix = f"[{i+1}/{len(chunks)}] ", i the 0-based loop index
Marker(i, n) == <<"[">> \o Str(i + 1) \o <<"/">> \o Str(n) \o <<"]", " ">>

\* base.py 157-160: for i in range(0, len(text), chunk_size): text[i:i+chunk_size]
SplitChunks(t, cs) ==
  [k \in 1..((Len(t) + cs - 1) \div cs) |-> PySlice(t, (k - 1) * cs, k * cs)]

\* base.py 168-170: the frame sent for chunk i (0-based) of cks
Frame(cks, i, cs) ==
  IF Len(cks) > 1
    THEN Marker(i, Len(cks)) \o PyPrefix(cks[i + 1], cs - Len(Marker(i, Len(cks))))
    ELSE cks[i + 1]

\* one call of send_message and the value it returned
SendCall(t, dst, ch, ack, ok) ==
  [op |-> "send", text |-> t, destination |-> dst, channel |-> ch,
   want_ack |-> ack, ok |-> ok]
\* one awaited asyncio.sleep(delay_seconds)
SleepCall == [op |-> "sleep"]

Texts == UNION {[1..n -> Chars] : n \in 0..MaxTextLen}

ChunkInit ==
  /\ protocol = "meshtastic"
  /\ connection_type = "serial"
  /\ TransportFresh
  /\ text \in Texts
  /\ chunk_size \in 1..MaxChunkSize
  /\ destination \in Destinations
  /\ channel \in Channels
  /\ want_ack \in BOOLEAN
  /\ chunks = <<>>
  /\ idx = 0
  /\ calls = <<>>
  /\ result = "none"
  /\ cpc = "start"
  /\ EventIdle
  /\ ServiceIdle

BoolResult(ok) == IF ok THEN "true" ELSE "false"

\* the short path forwarding send_message's default want_ack, not the caller's
SendChunkedBegin_DefaultAck ==
  /\ cpc = "start"
  /\ IF Len(text) <= chunk_size
       THEN \E ok \in BOOLEAN :
              /\ calls' = <<SendCall(text, destination, channel, FALSE, ok)>>
              /\ result' = BoolResult(ok)
              /\ cpc' = "done"
              /\ UNCHANGED <<chunks, idx>>
       ELSE /\ chunks' = SplitChunks(text, chunk_size)
            /\ idx' = 0
            /\ cpc' = "loop"
            /\ UNCHANGED <<calls, result>>
  /\ UNCHANGED <<text, chunk_size, destination, channel, want_ack>>

\* base.py 153-160: a text that fits is handed to send_message as it is and
\* that call's result returned; otherwise the text is split
SendChunkedBegin ==
  /\ cpc = "start"
  /\ IF Len(text) <= chunk_size
       THEN \E ok \in BOOLEAN :
              /\ calls' = <<SendCall(text, destination, channel, want_ack, ok)>>
              /\ result' = BoolResult(ok)
              /\ cpc' = "done"
              /\ UNCHANGED <<chunks, idx>>
       ELSE /\ chunks' = SplitChunks(text, chunk_size)
            /\ idx' = 0
            /\ cpc' = "loop"
            /\ UNCHANGED <<calls, result>>
  /\ UNCHANGED <<text, chunk_size, destination, channel, want_ack>>

\* the send loop with send_message's result ignored: it goes on after a
\* failed send and returns True after the last chunk
SendChunk_IgnoresFailure ==
  /\ cpc = "loop"
  /\ \E ok \in BOOLEAN :
       /\ calls' = calls \o (IF idx > 0 THEN <<SleepCall>> ELSE <<>>)
                         \o <<SendCall(Frame(chunks, idx, chunk_size),
                                       destination, channel, want_ack, ok)>>
       /\ IF idx + 1 = Len(chunks)
            THEN result' = "true" /\ cpc' = "done" /\ UNCHANGED idx
            ELSE idx' = idx + 1 /\ UNCHANGED <<result, cpc>>
  /\ UNCHANGED <<text, chunk_size, destination, channel, want_ack, chunks>>

\* the send loop with the delay awaited before every chunk, the first too
SendChunk_DelaysFirst ==
  /\ cpc = "loop"
  /\ \E ok \in BOOLEAN :
       /\ calls' = calls \o <<SleepCall>>
                         \o <<SendCall(Frame(chunks, idx, chunk_size),
                                       destination, channel, want_ack, ok)>>
       /\ IF ~ok
            THEN result' = "false" /\ cpc' = "done" /\ UNCHANGED idx
            ELSE IF idx + 1 = Len(chunks)
                   THEN result' = "true" /\ cpc' = "done" /\ UNCHANGED idx
                   ELSE idx' = idx + 1 /\ UNCHANGED <<result, cpc>>
  /\ UNCHANGED <<text, chunk_size, destination, channel, want_ack, chunks>>

\* base.py 163-177: one iteration of the send loop: the delay before every
\* chunk but the first, the frame, send_message; False on the first failed
\* send, True after the last chunk
SendChunk ==
  /\ cpc = "loop"
  /\ \E ok \in BOOLEAN :
       /\ calls' = calls \o (IF idx > 0 THEN <<SleepCall>> ELSE <<>>)
                         \o <<SendCall(Frame(chunks, idx, chunk_size),
                                       destination, channel, want_ack, ok)>>
       /\ IF ~ok
            THEN result' = "false" /\ cpc' = "done" /\ UNCHANGED idx
            ELSE IF idx + 1 = Len(chunks)
                   THEN result' = "true" /\ cpc' = "done" /\ UNCHANGED idx
                   ELSE idx' = idx + 1 /\ UNCHANGED <<result, cpc>>
  /\ UNCHANGED <<text, chunk_size, destination, channel, want_ack, chunks>>

ChunkNext ==
  \/ SendChunkedBegin /\ UNCHANGED <<transportVars, eventVars, serviceVars>>
  \/ SendChunk /\ UNCHANGED <<transportVars, eventVars, serviceVars>>

ChunkSpec == ChunkInit /\ [][ChunkNext]_vars

Next ==
  \/ ConnectBegin /\ UNCHANGED <<chunkVars, eventVars, serviceVars>>
  \/ ConnectOpen /\ UNCHANGED <<queryVars, chunkVars, eventVars, serviceVars>>
  \/ ConnectSetup /\ UNCHANGED <<queryVars, chunkVars, eventVars, serviceVars>>
  \/ ConnectFinish /\ UNCHANGED <<queryVars, chunkVars, eventVars, serviceVars>>
  \/ CoreConnectBegin /\ UNCHANGED <<chunkVars, eventVars, serviceVars>>
  \/ CoreConnectRaise /\ UNCHANGED <<queryVars, chunkVars, eventVars, serviceVars>>
  \/ Disconnect /\ UNCHANGED <<chunkVars, eventVars, serviceVars>>
  \/ OnDisconnect /\ UNCHANGED <<queryVars, chunkVars, eventVars, serviceVars>>
  \/ OnConnection /\ UNCHANGED <<queryVars, chunkVars, eventVars, serviceVars>>
  \/ \E w \in Workers : WorkerStep(w) /\ UNCHANGED <<queryVars, chunkVars, eventVars, serviceVars>>

Spec == Init /\ [][Next]_vars

\* the same transport with the caller's is_connected() and send_message()
\* calls interleaved
QueryNext ==
  \/ Next
  \/ IsConnectedCall /\ UNCHANGED <<chunkVars, eventVars, serviceVars>>
  \/ SendMessage /\ UNCHANGED <<chunkVars, eventVars, serviceVars>>

QuerySpec == Init /\ [][QueryNext]_vars

\* every started thread is eventually scheduled; time.sleep and the session
\* open return (or raise), so a reconnect_loop thread that can step does step
FairSpec == Spec /\ \A w \in Workers : WF_vars(WorkerStep(w) /\ UNCHANGED <<queryVars, chunkVars, eventVars, serviceVars>>)

\* --------------------------------------------- node registry and events
Absent == ""
Broadcast == "^all"
RawIds == {"0a1b2c3d"}
ExtraKey == "!ffffffff"
Names == {"n1"}
EditedName == "edited"
Observers == {"o1", "o2"}
TickSteps == {1, OnlineWindow - 1}

\* 257-258: an id that does not start with "!" gets the prefix
Normalize(id) == IF id \in RawIds THEN "!0a1b2c3d" ELSE id

\* online taken as heard within the window, the end of the window included
IsNodeOnline_Inclusive(id) ==
  /\ id \in DOMAIN last_heard
  /\ last_heard[id] # NoSample
  /\ now - last_heard[id] <= OnlineWindow

\* _is_node_online (210-215)
IsNodeOnline(id) ==
  /\ id \in DOMAIN last_heard
  /\ last_heard[id] # NoSample
  /\ now - last_heard[id] < OnlineWindow

\* _parse_node (217-243): the MeshNode built from the device's data, with
\* is_online computed now and stored in it
ParseNode(id, nm) ==
  [node_id |-> Normalize(id), short_name |-> nm, is_online |-> IsNodeOnline(Normalize(id))]

\* get_node (176-178): the registry's own record, or nothing
GetNode(id) == IF id \in DOMAIN registry THEN <<registry[id]>> ELSE <<>>

\* get_all_nodes (180-188): a copy of every record with is_online recomputed
GetAllNodes ==
  [id \in DOMAIN registry |->
     [registry[id] EXCEPT !.is_online = IsNodeOnline(registry[id].node_id)]]

\* the nodes accessor (base.py 86-89): a new dict holding the registry's own
\* records
NodesRead == [id \in DOMAIN registry |-> registry[id]]

\* an entry of the dict a caller holds: alias says the value is the
\* registry's current record object, otherwise rec is an object of its own
NoRec == [node_id |-> "", short_name |-> "", is_online |-> FALSE]

\* the packets the session can hand to _on_receive
\* text packets to every kind of recipient; packets with a decoded payload
\* that has no text and packets with no decoded payload
Senders == {Absent, Broadcast} \cup RawIds \cup NodeIds
Packets ==
  [fromId : Senders, toId : {Absent, Broadcast, LocalId} \cup NodeIds,
   kind : {"text"}, text : {"hi"}]
  \cup
  [fromId : Senders, toId : {Broadcast},
   kind : {"position", "encrypted"}, text : {Absent}]

\* 262: a decoded payload with a text
IsText(p) == p.kind = "text"

\* is_direct for every packet not addressed to "^all"
IsDirect_AnyUnicast(to_id) == to_id # Broadcast

\* 272: is_direct = to_id != "^all" and to_id == self._my_node_id
IsDirect(to_id) == to_id # Broadcast /\ to_id = my_node_id

\* 266-291: the MeshMessage built from a text packet
MeshMessageOf(p) ==
  [from_id |-> p.fromId,
   to_id |-> IF p.toId # Broadcast THEN p.toId ELSE None,
   text |-> p.text,
   is_direct |-> IsDirect(p.toId),
   from_node |-> GetNode(p.fromId)]

\* a dispatch loop without the try/except around each callback: the first
\* raising observer ends it
Invocations_StopAtRaise(t, cbs, R) ==
  LET last == IF R = {} THEN Len(cbs)
                        ELSE CHOOSE k \in R : \A j \in R : k <= j
  IN [k \in 1..last |-> [type |-> t, observer |-> cbs[k], raised |-> k \in R]]

\* base.py 204-227: the loop over a callback list, each call in its own
\* try/except; R are the positions whose observer raises
Invocations(t, cbs, R) ==
  [k \in 1..Len(cbs) |-> [type |-> t, observer |-> cbs[k], raised |-> k \in R]]

\* _dispatch_message / _dispatch_node_update / the loop of
\* _set_connection_state for event type t
Deliver(t) ==
  \E R \in SUBSET (1..Len(observers[t])) :
    delivered' = Invocations(t, observers[t], R)

\* how many observers are registered, over the three lists
Registered ==
  Len(observers["message"]) + Len(observers["node"]) + Len(observers["connection"])

\* on_message / on_node_update / on_connection_change (base.py 191-201)
Register(t, o) ==
  /\ Registered < MaxObservers
  /\ observers' = [observers EXCEPT ![t] = Append(@, o)]
  /\ UNCHANGED <<now, ticks, last_heard, registry, held, inbox, delivered>>
  /\ UNCHANGED transportVars

\* _set_connection_state (base.py 220-227): the assignment, then the loop
SetConnectionState(s) ==
  /\ state' = s
  /\ Deliver("connection")
  /\ UNCHANGED <<now, ticks, last_heard, registry, held, inbox, observers>>
  /\ UNCHANGED <<protocol, connection_type, interface, running, reconnecting,
                 subscribed, my_node_id, nodes, mainPc, lastCall, probed, sent,
                 workers>>

\* _on_receive with the last-heard sample taken after the text check
OnReceive_TextOnly(p) ==
  /\ "meshtastic.receive" \in subscribed
  /\ last_heard' =
       IF IsText(p) /\ p.fromId # Absent /\ p.fromId # Broadcast
         THEN [last_heard EXCEPT ![Normalize(p.fromId)] = now]
         ELSE last_heard
  /\ IF IsText(p)
       THEN inbox' = <<MeshMessageOf(p)>> /\ Deliver("message")
       ELSE inbox' = <<>> /\ delivered' = <<>>
  /\ UNCHANGED <<now, ticks, registry, held, observers>>
  /\ UNCHANGED transportVars

\* _on_receive (248-297): the sender's last-heard sample, then for a text
\* packet the MeshMessage and its dispatch
OnReceive(p) ==
  /\ "meshtastic.receive" \in subscribed
  /\ last_heard' =
       IF p.fromId # Absent /\ p.fromId # Broadcast
         THEN [last_heard EXCEPT ![Normalize(p.fromId)] = now]
         ELSE last_heard
  /\ IF IsText(p)
       THEN inbox' = <<MeshMessageOf(p)>> /\ Deliver("message")
       ELSE inbox' = <<>> /\ delivered' = <<>>
  /\ UNCHANGED <<now, ticks, registry, held, observers>>
  /\ UNCHANGED transportVars

\* the caller's dict after the registry replaced the record of id: an entry
\* that was the registry's record keeps the old object
Detach(id) ==
  [k \in DOMAIN held |->
     IF k = id /\ held[k].alias THEN [alias |-> FALSE, rec |-> registry[id]]
                                ELSE held[k]]

\* _on_node_update_event (304-320): a record parsed from the session's data
\* replaces the registry's and is dispatched; nothing when the event has no
\* num, the session has no nodes or the parse fails
NodeUpdate(id, nm, parsed) ==
  /\ "meshtastic.node.updated" \in subscribed
  /\ IF parsed /\ interface # None
       THEN /\ registry' = [k \in DOMAIN registry \cup {id} |->
                              IF k = id THEN ParseNode(id, nm) ELSE registry[k]]
            /\ nodes' = nodes \cup {id}
            /\ held' = Detach(id)
            /\ Deliver("node")
       ELSE /\ delivered' = <<>>
            /\ UNCHANGED <<registry, nodes, held>>
  /\ UNCHANGED <<now, ticks, last_heard, inbox, observers>>
  /\ UNCHANGED <<protocol, connection_type, state, interface, running,
                 reconnecting, subscribed, my_node_id, mainPc, lastCall,
                 probed, sent, workers>>

OnNodeUpdateEvent ==
  \E id \in NodeIds, nm \in Names, parsed \in BOOLEAN : NodeUpdate(id, nm, parsed)

\* the clock advances by d seconds
Tick(d) ==
  /\ ticks < MaxTicks
  /\ now' = now + d
  /\ ticks' = ticks + 1
  /\ UNCHANGED <<last_heard, registry, held, inbox, observers, delivered>>
  /\ UNCHANGED transportVars

\* a caller reads the nodes accessor and keeps the dict
NodesAccessor ==
  /\ held' = [id \in DOMAIN registry |-> [alias |-> TRUE, rec |-> NoRec]]
  /\ UNCHANGED <<now, ticks, last_heard, registry, inbox, observers, delivered>>
  /\ UNCHANGED transportVars

\* the caller adds a key to the dict it holds
CallerAddsKey ==
  /\ ExtraKey \notin DOMAIN held
  /\ held' = [k \in DOMAIN held \cup {ExtraKey} |->
                IF k = ExtraKey THEN [alias |-> FALSE, rec |-> NoRec] ELSE held[k]]
  /\ UNCHANGED <<now, ticks, last_heard, registry, inbox, observers, delivered>>
  /\ UNCHANGED transportVars

\* the caller removes key k from the dict it holds
CallerRemovesKey(k) ==
  /\ k \in DOMAIN held
  /\ held' = [j \in DOMAIN held \ {k} |-> held[j]]
  /\ UNCHANGED <<now, ticks, last_heard, registry, inbox, observers, delivered>>
  /\ UNCHANGED transportVars

\* the caller assigns a field of the record under key k of the dict it
\* holds; the record is the registry's own object when the entry is an alias
CallerEditsRecord(k) ==
  /\ k \in DOMAIN held
  /\ IF held[k].alias
       THEN /\ registry' = [registry EXCEPT ![k].short_name = EditedName]
            /\ UNCHANGED held
       ELSE /\ held' = [held EXCEPT ![k].rec.short_name = EditedName]
            /\ UNCHANGED registry
  /\ UNCHANGED <<now, ticks, last_heard, inbox, observers, delivered>>
  /\ UNCHANGED transportVars

\* the transport after a successful connect(): _load_nodes (190-208) has
\* taken a last-heard sample and a record for every node the session knew
Connected ==
  /\ protocol = "meshtastic"
  /\ connection_type = "serial"
  /\ state = CONNECTED
  /\ interface = "main"
  /\ running = TRUE
  /\ reconnecting = FALSE
  /\ subscribed = Topics
  /\ my_node_id \in {None, LocalId}
  /\ mainPc = "idle"
  /\ lastCall = "connect_true"
  /\ probed = "none"
  /\ sent = "none"
  /\ workers = [w \in Workers |-> IdleWorker]

NodeInit ==
  /\ Connected
  /\ ChunkIdle
  /\ ServiceIdle
  /\ now = 1
  /\ ticks = 0
  /\ last_heard \in [NodeIds -> {NoSample, 1}]
  /\ registry \in {<<>>} \cup {[id \in NodeIds |-> ParseNode(id, nm)] : nm \in Names}
  /\ nodes = DOMAIN registry
  /\ held = <<>>
  /\ inbox = <<>>
  /\ observers = [t \in EventTypes |-> <<>>]
  /\ delivered = <<>>

NodeNext ==
  \/ \E d \in TickSteps : Tick(d) /\ UNCHANGED <<chunkVars, serviceVars>>
  \/ \E p \in Packets : OnReceive(p) /\ UNCHANGED <<chunkVars, serviceVars>>
  \/ OnNodeUpdateEvent /\ UNCHANGED <<chunkVars, serviceVars>>
  \/ NodesAccessor /\ UNCHANGED <<chunkVars, serviceVars>>
  \/ CallerAddsKey /\ UNCHANGED <<chunkVars, serviceVars>>
  \/ \E k \in NodeIds \cup {ExtraKey} : CallerRemovesKey(k) /\ UNCHANGED <<chunkVars, serviceVars>>
  \/ \E k \in NodeIds \cup {ExtraKey} : CallerEditsRecord(k) /\ UNCHANGED <<chunkVars, serviceVars>>

NodeSpec == NodeInit /\ [][NodeNext]_vars

\* the text packets used to trigger a message dispatch
DispatchPackets ==
  {p \in Packets : IsText(p) /\ p.fromId \in NodeIds /\ p.toId = Broadcast}

\* a connected transport whose session knew no node
DispatchInit ==
  /\ NodeInit
  /\ my_node_id = LocalId
  /\ registry = <<>>
  /\ \A id \in NodeIds : last_heard[id] = NoSample

DispatchNext ==
  \/ \E t \in EventTypes, o \in Observers : Register(t, o) /\ UNCHANGED <<chunkVars, serviceVars>>
  \/ \E s \in ConnectionState : SetConnectionState(s) /\ UNCHANGED <<chunkVars, serviceVars>>
  \/ \E p \in DispatchPackets : OnReceive(p) /\ UNCHANGED <<chunkVars, serviceVars>>
  \/ OnNodeUpdateEvent /\ UNCHANGED <<chunkVars, serviceVars>>

DispatchSpec == DispatchInit /\ [][DispatchNext]_vars

\* ------------------------------------------------------------------------
\* Claims about the connection state machine
\* ------------------------------------------------------------------------
ConnectStarts == mainPc = "idle" /\ mainPc' # "idle"
ConnectEnds == mainPc # "idle" /\ mainPc' = "idle"

\* C1: on either transport variant connect() sets the state to Connecting
\* before the attempt, and when the call ends, by return or by raising, the
\* state is Connected if the attempt succeeded and Error if it failed (never
\* Connecting).
C1_ConnectOutcome ==
  [][ /\ ConnectStarts => state' = CONNECTING
      /\ ConnectEnds =>
           state' = IF lastCall' = "connect_true" THEN CONNECTED ELSE ERROR ]_vars

LoopStarted == \E w \in Workers : workers[w].pc = "idle" /\ workers'[w].pc = "top"

\* C2: every link-lost notification unsubscribes the four handlers, closes
\* and drops the session handle, sets the state to Disconnected, and starts
\* a reconnection loop iff none is in flight.
C2_LinkLost ==
  [][ OnDisconnect =>
        /\ subscribed' \cap Topics = {}
        /\ interface' = None
        /\ state' = DISCONNECTED
        /\ LoopStarted <=> ~reconnecting ]_vars

\* C3: in every reachable state at most one reconnection loop worker is
\* active.
C3_OneWorker == Cardinality(ActiveWorkers) <= 1

AttemptBegins(w) == workers[w].pc # "open" /\ workers'[w].pc = "open"
IterationBegins(w) == workers[w].pc # "sleep" /\ workers'[w].pc = "sleep"
AttemptSucceeds(w) == workers[w].pc = "setup" /\ workers'[w].pc = "finish"
LoopReturns(w) == workers[w].pc = "finish" /\ workers'[w].pc # "finish"

\* C4: one reconnection loop makes at most 20 attempts; every attempt is
\* preceded by a transition to Connecting and then the delay; a successful
\* attempt has opened a session, resolved the local id from it, subscribed
\* the four handlers and reloaded the nodes; on that first success the
\* reconnecting flag is cleared, the state becomes Connected and the loop
\* makes no further attempt.
C4_ReconnectLoop ==
  [][ \A w \in Workers :
        /\ workers'[w].attempts <= MaxReconnectAttempts
        /\ IterationBegins(w) =>
             /\ state' = CONNECTING
             /\ workers'[w].attempts = workers[w].attempts + 1
        /\ AttemptBegins(w) => workers[w].pc = "sleep"
        /\ AttemptSucceeds(w) =>
             /\ interface' # None
             /\ my_node_id' \in {my_node_id, LocalId}
             /\ subscribed' = subscribed \cup Topics
             /\ nodes \subseteq nodes'
             /\ running'
             /\ ~reconnecting'
        /\ LoopReturns(w) => state' = CONNECTED /\ workers'[w].pc = "idle" ]_vars

\* an attempt of a loop has just succeeded: the session it opened is held,
\* the flag is cleared and the thread is about to set CONNECTED and return
C4_Witness ==
  \E w \in Workers :
    /\ workers[w].pc = "finish"
    /\ interface = "worker"
    /\ running
    /\ ~reconnecting
    /\ state = CONNECTING

LoopExhausted(w) == workers[w].pc = "top" /\ workers'[w].pc = "exhausted"

\* an upper bound on the steps a reconnect_loop thread still takes
StepsLeft(wk) ==
  LET iter == 4 * (MaxReconnectAttempts - wk.attempts) + 3
  IN  CASE wk.pc = "idle" -> 0
        [] wk.pc = "finish" -> 1
        [] wk.pc = "fail" -> 1
        [] wk.pc = "exhausted" -> 2
        [] wk.pc = "top" -> iter
        [] wk.pc = "setup" -> iter + 1
        [] wk.pc = "open" -> iter + 2
        [] wk.pc = "sleep" -> iter + 3

\* C5: a reconnection loop always terminates (a started thread can always
\* step, and each of its steps lowers StepsLeft); when all 20 attempts have
\* failed it leaves the while loop holding no session of its own, clears the
\* reconnecting flag and ends by setting the state to Error; a loop is
\* started only by a link-lost notification, so nothing attempts again
\* until one arrives.
C5_LoopTerminates ==
  [][ /\ \A w \in Workers :
           /\ workers[w].pc # "idle" => ENABLED WorkerStep(w)
           /\ workers[w].pc # "idle" /\ workers'[w] # workers[w] =>
                StepsLeft(workers'[w]) < StepsLeft(workers[w])
           /\ LoopExhausted(w) =>
                /\ workers[w].attempts = MaxReconnectAttempts
                /\ interface # "worker"
           /\ workers[w].pc = "exhausted" /\ workers'[w] # workers[w] =>
                workers'[w].pc = "fail" /\ ~reconnecting'
           /\ workers[w].pc = "fail" /\ workers'[w] # workers[w] =>
                workers'[w].pc = "idle" /\ state' = ERROR
      /\ LoopStarted => OnDisconnect ]_vars

\* the same termination as a liveness property, under FairSpec
LoopEventuallyEnds ==
  \A w \in Workers : (workers[w].pc # "idle") ~> (workers[w].pc = "idle")

\* a loop has used up its 20 attempts and cleared the flag, no session held
C5_Witness ==
  \E w \in Workers :
    /\ workers[w].pc = "fail"
    /\ workers[w].attempts = MaxReconnectAttempts
    /\ ~reconnecting
    /\ interface = None

\* C6: after an explicit disconnect() has completed, the state stays
\* Disconnected and no session is held until the caller invokes connect()
\* again.
C6_DisconnectIsFinal ==
  lastCall = "disconnect" => state = DISCONNECTED /\ interface = None

\* ------------------------------------------------------------------------
\* Claims about send_chunked_message
\* ------------------------------------------------------------------------
Sends == SelectSeq(calls, LAMBDA c : c.op = "send")
Sleeps == SelectSeq(calls, LAMBDA c : c.op = "sleep")
CeilDiv(a, b) == (a + b - 1) \div b
IsPrefix(p, q) == Len(p) <= Len(q) /\ SubSeq(q, 1, Len(p)) = p

\* the marker "[i/n] " of the i-th of n frames, i counted from 1
MarkerText(i, n) == <<"[">> \o Str(i) \o <<"/">> \o Str(n) \o <<"]", " ">>

\* frame f without the marker of the i-th of n frames
StripMarker(f, i, n) == SubSeq(f, Len(MarkerText(i, n)) + 1, Len(f))

RECURSIVE ConcatBodies(_, _)
ConcatBodies(ss, k) ==
  IF k = 0 THEN <<>>
  ELSE ConcatBodies(ss, k - 1) \o StripMarker(ss[k].text, k, Len(ss))

MultiChunkDone == cpc = "done" /\ Len(text) > chunk_size /\ result = "true"

\* C7: for a text longer than chunk_size, when every send succeeds, the
\* frames with their "[i/n] " markers stripped concatenate, in send order,
\* to the text exactly.
C7_Reassembly == MultiChunkDone => ConcatBodies(Sends, Len(Sends)) = text

\* C8: a text no longer than chunk_size makes exactly one send_message
\* call, carrying the text unmodified with the caller's destination, channel
\* and want_ack, awaits no delay, and returns that call's result.
C8_ShortText ==
  (cpc = "done" /\ Len(text) <= chunk_size) =>
    /\ Len(calls) = 1
    /\ calls[1].op = "send"
    /\ calls[1].text = text
    /\ calls[1].destination = destination
    /\ calls[1].channel = channel
    /\ calls[1].want_ack = want_ack
    /\ result = BoolResult(calls[1].ok)

\* a text exactly chunk_size long was sent with acknowledgment requested
C8_Witness ==
  /\ cpc = "done"
  /\ Len(text) = chunk_size
  /\ want_ack
  /\ destination # None
  /\ Len(calls) = 1

\* C9: for a text longer than chunk_size, when every send succeeds, exactly
\* n = ceil(len(text)/chunk_size) send_message calls are made, the i-th
\* frame begins with the marker "[i/n] " followed by characters of the i-th
\* slice, each with the caller's destination, channel and want_ack.
C9_ChunkCountAndOrder ==
  MultiChunkDone =>
    LET n == CeilDiv(Len(text), chunk_size)
    IN  /\ Len(Sends) = n
        /\ \A i \in 1..n :
             /\ IsPrefix(MarkerText(i, n), Sends[i].text)
             /\ IsPrefix(StripMarker(Sends[i].text, i, n),
                         PySlice(text, (i - 1) * chunk_size, i * chunk_size))
             /\ Sends[i].destination = destination
             /\ Sends[i].channel = channel
             /\ Sends[i].want_ack = want_ack

\* a send of ten or more frames has completed, so markers of both widths
\* ("[9/10] ", "[10/10] ") were produced
C9_Witness == MultiChunkDone /\ Len(Sends) >= 10 /\ destination # None

\* C10: every frame passed to send_message is at most chunk_size long,
\* marker included, for every chunk_size >= 1.
C10_FrameFits ==
  \A k \in 1..Len(calls) :
    calls[k].op = "send" => Len(calls[k].text) <= chunk_size

\* C11: in a multi-chunk send, a send_message that returns false is the last
\* call made: no later chunk is sent, no further delay is awaited, and
\* send_chunked_message returns false; it returns true only if one send per
\* chunk was made and every one of them returned true.
C11_FailFast ==
  Len(text) > chunk_size =>
    /\ \A k \in 1..Len(calls) :
         (calls[k].op = "send" /\ ~calls[k].ok) =>
           k = Len(calls) /\ cpc = "done" /\ result = "false"
    /\ result = "true" =>
         /\ Len(Sends) = CeilDiv(Len(text), chunk_size)
         /\ \A k \in 1..Len(Sends) : Sends[k].ok
    /\ result = "false" =>
         /\ calls # <<>>
         /\ calls[Len(calls)].op = "send"
         /\ ~calls[Len(calls)].ok

\* a send of at least three chunks that failed on a chunk after the first
\* and before the last
C11_Witness ==
  /\ cpc = "done"
  /\ result = "false"
  /\ Len(chunks) >= 3
  /\ Len(Sends) >= 2
  /\ Len(Sends) < Len(chunks)

\* C12: in a multi-chunk send the delay is awaited exactly once between two
\* consecutive sends, after the earlier send returned, and never before the
\* first chunk or after the last call: the calls alternate send, sleep, send,
\* ..., beginning and ending with a send.
C12_DelayBetweenChunks ==
  Len(text) > chunk_size =>
    /\ \A k \in 1..Len(calls) :
         calls[k].op = (IF k % 2 = 1 THEN "send" ELSE "sleep")
    /\ calls # <<>> => calls[Len(calls)].op = "send"
    /\ cpc = "done" /\ result = "true" =>
         Len(Sleeps) = CeilDiv(Len(text), chunk_size) - 1

\* all of at least three chunks sent, with the two or more delays between
C12_Witness ==
  /\ cpc = "done"
  /\ result = "true"
  /\ Len(chunks) >= 3
  /\ Len(Sleeps) = Len(chunks) - 1

\* ------------------------------------------------------------------------
\* Claims about is_connected and send_message
\* ------------------------------------------------------------------------
\* C13: send_message never raises, on either transport: it returns false when
\* the transport is not connected or the underlying send fails, leaving the
\* connection state and the node registry as they were, and returns true only
\* when the underlying send completed without error.
C13_SendNeverRaises ==
  [][ SendMessage =>
        /\ lastCall' \in {"send_true", "send_false"}
        /\ (interface = None \/ ~running \/ sent' = "failed") =>
             lastCall' = "send_false"
        /\ lastCall' = "send_true" =>
             sent' = "ok" /\ IsDevice /\ interface # None /\ running
        /\ UNCHANGED <<state, nodes, interface, running, reconnecting,
                       subscribed, my_node_id>> ]_vars

\* a send on a connected device transport whose sendText raised
C13_Witness ==
  /\ lastCall = "send_false"
  /\ sent = "failed"
  /\ state = CONNECTED
  /\ nodes # {}

\* C20: is_connected() on the device transport never raises: it returns
\* false when no session handle is held or the running flag is clear, false
\* when probing the session raises or finds the reader thread dead, and true
\* only when a session is held, the flag is set and the probe succeeds.
C20_IsConnected ==
  [][ IsConnectedCall /\ IsDevice =>
        /\ lastCall' \in {"is_connected_true", "is_connected_false"}
        /\ (interface = None \/ ~running) =>
             lastCall' = "is_connected_false" /\ probed' = "none"
        /\ probed' \in {"reader_dead", "raises"} => lastCall' = "is_connected_false"
        /\ lastCall' = "is_connected_true" =>
             /\ interface # None
             /\ running
             /\ probed' = "succeeds"
        /\ UNCHANGED <<state, nodes, interface, running, reconnecting,
                       subscribed, my_node_id>> ]_vars

\* a held, running session whose reader thread the probe found dead
C20_Witness ==
  /\ lastCall = "is_connected_false"
  /\ probed = "reader_dead"
  /\ interface # None
  /\ running

\* ------------------------------------------------------------------------
\* Claims about observers, the node registry and inbound packets
\* ------------------------------------------------------------------------
\* the observers a dispatch invoked, in the order of the calls
Called(d) == [k \in 1..Len(d) |-> d[k].observer]

\* C14: for each of the three event types, a dispatch invokes every
\* registered observer exactly once, in registration order, whether or not
\* an earlier observer raised, and the operation that triggered it completes:
\* the connection state is assigned, the MeshMessage is dispatched, the node
\* record is stored.
C14_ObserversNotified ==
  [][ /\ \A s \in ConnectionState :
           SetConnectionState(s) =>
             /\ state' = s
             /\ Called(delivered') = observers["connection"]
             /\ \A k \in 1..Len(delivered') : delivered'[k].type = "connection"
      /\ \A p \in DispatchPackets :
           OnReceive(p) =>
             /\ Len(inbox') = 1
             /\ Called(delivered') = observers["message"]
             /\ \A k \in 1..Len(delivered') : delivered'[k].type = "message"
      /\ (OnNodeUpdateEvent /\ registry' # registry) =>
             /\ Called(delivered') = observers["node"]
             /\ \A k \in 1..Len(delivered') : delivered'[k].type = "node" ]_vars

\* three connection observers were invoked although the first one raised,
\* and the state was assigned
C14_Witness ==
  /\ Len(delivered) = 3
  /\ delivered[1].type = "connection"
  /\ delivered[1].raised
  /\ ~delivered[3].raised
  /\ delivered[1].observer # delivered[2].observer
  /\ state = ERROR

\* a step of the caller on the dict it got from the nodes accessor
CallerStep ==
  \/ CallerAddsKey
  \/ \E k \in NodeIds \cup {ExtraKey} : CallerRemovesKey(k)
  \/ \E k \in NodeIds \cup {ExtraKey} : CallerEditsRecord(k)

\* C15: no change a caller makes to the value the nodes accessor returned
\* (adding or removing keys, modifying a field of a returned record) changes
\* the registry as observed through nodes, get_node or get_all_nodes.
C15_DefensiveCopy ==
  [][ CallerStep =>
        /\ NodesRead' = NodesRead
        /\ GetAllNodes' = GetAllNodes
        /\ \A id \in NodeIds : GetNode(id)' = GetNode(id) ]_vars

\* the status get_all_nodes reports equals "a sample exists and is younger
\* than 7200 s"
C16_Status ==
  \A id \in DOMAIN registry :
    GetAllNodes[id].is_online <=>
      (last_heard[id] # NoSample /\ now - last_heard[id] < OnlineWindow)

\* C16: a node is online iff a last-heard sample exists for it and
\* now - last_heard < 7200; when the window elapses without a packet the
\* status get_all_nodes reports becomes false and the record stays in the
\* registry.
C16_OnlineWindow ==
  /\ []C16_Status
  /\ [][now' # now => DOMAIN registry' = DOMAIN registry]_vars

\* a record stored as online, exactly 7200 s after its last sample: still in
\* the registry, reported offline
C16_Witness ==
  \E id \in DOMAIN registry :
    /\ last_heard[id] # NoSample
    /\ now - last_heard[id] = OnlineWindow
    /\ registry[id].is_online
    /\ ~GetAllNodes[id].is_online

\* is_online recomputed from the last-heard map at this moment
Recomputed(id) ==
  id \in NodeIds /\ last_heard[id] # NoSample /\ now - last_heard[id] < OnlineWindow

\* every read path returns the recomputed is_online
C17_Reads ==
  \A id \in DOMAIN registry :
    /\ GetNode(id)[1].is_online = Recomputed(id)
    /\ NodesRead[id].is_online = Recomputed(id)
    /\ GetAllNodes[id].is_online = Recomputed(id)

\* C17: is_online is never stored: on every read path (get_node,
\* get_all_nodes, the nodes accessor, the sender snapshot of a dispatched
\* MeshMessage) the is_online returned equals the value recomputed from the
\* last-heard map at the time of the read.
C17_NeverStored ==
  /\ []C17_Reads
  /\ [][ \A p \in Packets :
           (OnReceive(p) /\ IsText(p)) =>
             \A k \in 1..Len(inbox'[1].from_node) :
               inbox'[1].from_node[k].is_online = Recomputed(p.fromId)' ]_vars

\* C18: a dispatched MeshMessage has is_direct true iff the packet's
\* recipient equals the local node id and is not the broadcast sigil; a
\* broadcast packet yields is_direct false, no recipient id and the packet's
\* text.
C18_DirectFlag ==
  [][ \A p \in Packets :
        (OnReceive(p) /\ IsText(p)) =>
          /\ Len(inbox') = 1
          /\ inbox'[1].is_direct <=> (p.toId = my_node_id /\ p.toId # Broadcast)
          /\ p.toId = Broadcast =>
               /\ ~inbox'[1].is_direct
               /\ inbox'[1].to_id = None
               /\ inbox'[1].text = p.text ]_vars

\* a direct message to the local node was dispatched
C18_Witness ==
  /\ Len(inbox) = 1
  /\ inbox[1].is_direct
  /\ inbox[1].to_id = LocalId
  /\ my_node_id = LocalId

\* C19: every inbound packet attributed to a node id, text or not, sets that
\* id's last-heard sample to the receive time; a packet without text
\* dispatches no MeshMessage and changes nothing but the last-heard map; a
\* text packet dispatches exactly one MeshMessage.
C19_LastHeard ==
  [][ \A p \in Packets :
        OnReceive(p) =>
          /\ p.fromId \in RawIds \cup NodeIds =>
               \E id \in NodeIds :
                 /\ p.fromId \in {id, "0a1b2c3d"}
                 /\ last_heard'[id] = now
          /\ ~IsText(p) =>
               /\ inbox' = <<>>
               /\ delivered' = <<>>
               /\ UNCHANGED <<transportVars, registry, held, observers>>
               /\ \A id \in NodeIds :
                    last_heard'[id] # last_heard[id] => p.fromId \in RawIds \cup NodeIds
          /\ IsText(p) => Len(inbox') = 1 ]_vars

\* after the clock moved, a packet without text left a fresh sample and no
\* MeshMessage
C19_Witness ==
  /\ inbox = <<>>
  /\ ticks > 0
  /\ \E id \in NodeIds : last_heard[id] = now

\* ------------------------------------------------- regional MQTT pipeline
\* services/mqtt_regional.py: MQTTRegionalService and its paho callbacks

\* "from" fields of the packets fed to the service
Froms == {169552957, 2}

HexDigits ==
  <<"0", "1", "2", "3", "4", "5", "6", "7", "8", "9", "a", "b", "c", "d", "e", "f">>

\* format(n, '0<w>x'): lower-case hexadecimal, zero-padded to at least w digits
RECURSIVE Hex(_, _)
Hex(n, w) ==
  IF n = 0 /\ w = 0
    THEN ""
    ELSE Hex(n \div 16, IF w > 0 THEN w - 1 ELSE 0) \o HexDigits[(n % 16) + 1]

\* 241: sender = f'!{from_id:08x}'
SenderOf(f) == "!" \o Hex(f, 8)

RegionalHexIds == {Hex(f, 8) : f \in Froms}

\* User.id values carried by NODEINFO payloads: none, prefixed, bare
InfoIds == {"", "!00000002", "0a1b2c3d"}

\* 314: the id gets the "!" prefix unless it is empty or already has it
InfoNodeId(id) ==
  IF id # "" /\ ~(\E h \in RegionalHexIds : id = "!" \o h) THEN "!" \o id ELSE id

\* what the envelope carries:
\*   decoded        a pre-decoded Data (246)
\*   encrypted      ciphertext that decrypts to a parseable Data (250-255)
\*   garbled        ciphertext whose decrypted bytes Data cannot parse (256-258)
\*   undecryptable  ciphertext decrypt_packet returns None for (259-261)
\*   empty          neither decoded nor encrypted (262-264)
\*   bad_envelope   a payload ServiceEnvelope cannot parse (237)
Bodies == {"decoded", "encrypted", "garbled", "undecryptable", "empty", "bad_envelope"}
Portnums == {"text", "nodeinfo", "position", "telemetry", "other"}
RegionalName == "GW"
RegionalText == "hi"

RegionalPackets ==
  {p \in [from : Froms, body : Bodies, portnum : Portnums, info_id : InfoIds] :
     /\ p.portnum # "nodeinfo" => p.info_id = ""
     /\ p.body \notin {"decoded", "encrypted"} => p.portnum = "other"}

\* the decode taking bytes Data cannot parse for a decoded packet
DecodeOutcome_GarbledOk(p) ==
  CASE p.body \in {"decoded", "encrypted", "garbled"} -> "ok"
    [] p.body = "undecryptable" -> "fail"
    [] p.body = "empty" -> "none"
    [] OTHER -> "error"

\* 244-264: how the decode of the envelope's packet ends
DecodeOutcome(p) ==
  CASE p.body \in {"decoded", "encrypted"} -> "ok"
    [] p.body \in {"garbled", "undecryptable"} -> "fail"
    [] p.body = "empty" -> "none"
    [] OTHER -> "error"

\* RegionalNode(node_id=...) with the dataclass defaults (60-74)
RegionalNode(id) ==
  [node_id |-> id, short_name |-> None, last_heard |-> 0, message_count |-> 0,
   located |-> FALSE, battery |-> FALSE]

\* dict assignment d[k] = v
Put(d, k, v) == [x \in DOMAIN d \cup {k} |-> IF x = k THEN v ELSE d[x]]

\* Python's s[i:] for any integer i
PyFrom(s, i) ==
  LET lo == IF i >= 0
              THEN (IF i > Len(s) THEN Len(s) ELSE i)
              ELSE (IF Len(s) + i < 0 THEN 0 ELSE Len(s) + i)
  IN SubSeq(s, lo + 1, Len(s))

\* Python's reversed(s)
Reversed(s) == [i \in 1..Len(s) |-> s[Len(s) + 1 - i]]

\* the buffer trimmed by keeping its first _max_messages entries
Evict_KeepsOldest(msgs) ==
  IF Len(msgs) > MaxMessages THEN SubSeq(msgs, 1, MaxMessages) ELSE msgs

\* 305-306: the buffer trimmed to its last _max_messages entries
Evict(msgs) ==
  IF Len(msgs) > MaxMessages THEN PyFrom(msgs, -MaxMessages) ELSE msgs

\* 293-301: the RegionalMessage built for a text packet; the arrival number
\* stands for datetime.now()
RegionalMessage(sender, node, stamp) ==
  [sender |-> sender, sender_name |-> node.short_name, text |-> RegionalText,
   channel |-> "LongFast", timestamp |-> stamp]

\* RegionalMessage.to_dict (105-115)
MessageToDict(m) ==
  [sender |-> m.sender, sender_name |-> m.sender_name, text |-> m.text,
   channel |-> m.channel, timestamp |-> <<"iso", m.timestamp>>,
   source |-> "mqtt_regional"]

\* get_messages (371-375)
GetMessages(limit) ==
  LET tail == Reversed(PyFrom(regional_messages, -limit))
  IN [i \in 1..Len(tail) |-> MessageToDict(tail[i])]

\* the handler counting a payload only once it has been decoded
OnMessage_CountsDecoded(p) ==
  LET stamp == messages_received + 1
      sender == SenderOf(p.from)
      n0 == IF sender \in DOMAIN regional_nodes
              THEN regional_nodes[sender] ELSE RegionalNode(sender)
      node == [n0 EXCEPT !.last_heard = stamp, !.message_count = @ + 1]
      table == Put(regional_nodes, sender, node)
      target == InfoNodeId(p.info_id)
      t0 == IF target \in DOMAIN table THEN table[target] ELSE RegionalNode(target)
  IN
  /\ mqtt_thread = "loop"
  /\ messages_received' = IF DecodeOutcome(p) = "ok" THEN stamp ELSE messages_received
  /\ decoded_ok' = IF DecodeOutcome(p) = "ok" THEN decoded_ok + 1 ELSE decoded_ok
  /\ decoded_fail' = IF DecodeOutcome(p) = "fail" THEN decoded_fail + 1 ELSE decoded_fail
  /\ IF DecodeOutcome(p) # "ok"
       THEN UNCHANGED <<regional_nodes, regional_messages, text_messages_received>>
       ELSE CASE p.portnum = "text" ->
                   /\ regional_nodes' = table
                   /\ regional_messages' =
                        Evict(Append(regional_messages,
                                     RegionalMessage(sender, node, stamp)))
                   /\ text_messages_received' = text_messages_received + 1
              [] p.portnum = "nodeinfo" ->
                   /\ regional_nodes' =
                        IF target # ""
                          THEN Put(table, target,
                                   [t0 EXCEPT !.short_name = RegionalName,
                                              !.last_heard = stamp])
                          ELSE Put(table, sender,
                                   [node EXCEPT !.short_name = RegionalName])
                   /\ UNCHANGED <<regional_messages, text_messages_received>>
              [] p.portnum = "position" ->
                   /\ regional_nodes' = Put(table, sender, [node EXCEPT !.located = TRUE])
                   /\ UNCHANGED <<regional_messages, text_messages_received>>
              [] p.portnum = "telemetry" ->
                   /\ regional_nodes' = Put(table, sender, [node EXCEPT !.battery = TRUE])
                   /\ UNCHANGED <<regional_messages, text_messages_received>>
              [] OTHER ->
                   /\ regional_nodes' = table
                   /\ UNCHANGED <<regional_messages, text_messages_received>>
  /\ UNCHANGED <<mqtt_running, mqtt_client, mqtt_thread, mqtt_connected,
                 client_calls, stopPc, mqttLastCall>>

\* _on_message (230-356), run by the worker thread inside client.loop
OnMessage(p) ==
  LET stamp == messages_received + 1
      sender == SenderOf(p.from)
      n0 == IF sender \in DOMAIN regional_nodes
              THEN regional_nodes[sender] ELSE RegionalNode(sender)
      node == [n0 EXCEPT !.last_heard = stamp, !.message_count = @ + 1]
      table == Put(regional_nodes, sender, node)
      target == InfoNodeId(p.info_id)
      t0 == IF target \in DOMAIN table THEN table[target] ELSE RegionalNode(target)
  IN
  /\ mqtt_thread = "loop"
  /\ messages_received' = stamp
  /\ decoded_ok' = IF DecodeOutcome(p) = "ok" THEN decoded_ok + 1 ELSE decoded_ok
  /\ decoded_fail' = IF DecodeOutcome(p) = "fail" THEN decoded_fail + 1 ELSE decoded_fail
  /\ IF DecodeOutcome(p) # "ok"
       THEN UNCHANGED <<regional_nodes, regional_messages, text_messages_received>>
       ELSE CASE p.portnum = "text" ->
                   /\ regional_nodes' = table
                   /\ regional_messages' =
                        Evict(Append(regional_messages,
                                     RegionalMessage(sender, node, stamp)))
                   /\ text_messages_received' = text_messages_received + 1
              [] p.portnum = "nodeinfo" ->
                   /\ regional_nodes' =
                        IF target # ""
                          THEN Put(table, target,
                                   [t0 EXCEPT !.short_name = RegionalName,
                                              !.last_heard = stamp])
                          ELSE Put(table, sender,
                                   [node EXCEPT !.short_name = RegionalName])
                   /\ UNCHANGED <<regional_messages, text_messages_received>>
              [] p.portnum = "position" ->
                   /\ regional_nodes' = Put(table, sender, [node EXCEPT !.located = TRUE])
                   /\ UNCHANGED <<regional_messages, text_messages_received>>
              [] p.portnum = "telemetry" ->
                   /\ regional_nodes' = Put(table, sender, [node EXCEPT !.battery = TRUE])
                   /\ UNCHANGED <<regional_messages, text_messages_received>>
              [] OTHER ->
                   /\ regional_nodes' = table
                   /\ UNCHANGED <<regional_messages, text_messages_received>>
  /\ UNCHANGED <<mqtt_running, mqtt_client, mqtt_thread, mqtt_connected,
                 client_calls, stopPc, mqttLastCall>>

\* the service after start() returned True and the worker entered client.loop
RegionalStarted ==
  /\ LockIdle
  /\ mqtt_running = TRUE
  /\ mqtt_client = "client"
  /\ mqtt_thread = "loop"
  /\ mqtt_connected = TRUE
  /\ messages_received = 0
  /\ decoded_ok = 0
  /\ decoded_fail = 0
  /\ text_messages_received = 0
  /\ regional_nodes = <<>>
  /\ regional_messages = <<>>
  /\ client_calls = <<>>
  /\ stopPc = "idle"
  /\ mqttLastCall = "start_true"

\* the text packets of one sender
BufferPackets ==
  {p \in RegionalPackets : p.portnum = "text" /\ p.from = 2}

BufferInit ==
  /\ protocol = "meshtastic"
  /\ connection_type = "serial"
  /\ TransportFresh
  /\ ChunkIdle
  /\ EventIdle
  /\ RegionalStarted
  /\ app = "startup"
  /\ NotifyIdle
  /\ CryptoIdle
  /\ session_nodes = <<>>

BufferNext ==
  \E p \in BufferPackets :
    /\ text_messages_received < MaxTexts
    /\ OnMessage(p)
    /\ UNCHANGED <<transportVars, chunkVars, eventVars, appVars, cryptoVars, sessionVars, lockVars, notifyVars>>

BufferSpec == BufferInit /\ [][BufferNext]_vars

\* the arrival numbers of the buffered messages, oldest first
Stamps == [i \in 1..Len(regional_messages) |-> regional_messages[i].timestamp]

\* C21: the buffer never holds more than 100 messages; it holds the most
\* recent min(100, n) of the n text messages received, in arrival order, so
\* a text message arriving at a full buffer evicts exactly the oldest one.
C21_BufferBound ==
  /\ Len(regional_messages) <= MaxMessages
  /\ Len(regional_messages) =
       (IF text_messages_received < MaxMessages
          THEN text_messages_received ELSE MaxMessages)
  /\ \A i \in 1..Len(regional_messages) :
       Stamps[i] = text_messages_received - Len(regional_messages) + i

\* the 102nd text message arrived: the first two are gone, the buffer is full
C21_Witness ==
  /\ text_messages_received = MaxMessages + 2
  /\ Len(regional_messages) = MaxMessages
  /\ Stamps[1] = 3
  /\ Stamps[MaxMessages] = MaxMessages + 2

\* C22: for every N >= 0, get_messages(N) returns exactly the min(N, buffered)
\* most recent messages, newest first.
C22_GetMessages ==
  \A N \in 0..(MaxMessages + 1) :
    LET k == IF N < Len(regional_messages) THEN N ELSE Len(regional_messages)
    IN /\ Len(GetMessages(N)) = k
       /\ \A i \in 1..k :
            GetMessages(N)[i] =
              MessageToDict(regional_messages[Len(regional_messages) + 1 - i])

\* start (160-185): a no-op returning True when already running; otherwise
\* the client is created and connected, the flag set and the worker started;
\* a failing connect leaves the client in place and returns False.  start is
\* called while no earlier worker is alive.
Start ==
  /\ stopPc = "idle"
  /\ mqtt_running \/ mqtt_thread \in {"none", "exited"}
  /\ IF mqtt_running
       THEN /\ mqttLastCall' = "start_true"
            /\ UNCHANGED <<mqtt_running, mqtt_client, mqtt_thread>>
       ELSE /\ mqtt_client' = "client"
            /\ \E ok \in BOOLEAN :
                 IF ok
                   THEN /\ mqtt_running' = TRUE
                        /\ mqtt_thread' = "top"
                        /\ mqttLastCall' = "start_true"
                   ELSE /\ mqttLastCall' = "start_false"
                        /\ UNCHANGED <<mqtt_running, mqtt_thread>>
  /\ UNCHANGED <<mqtt_connected, messages_received, decoded_ok, decoded_fail,
                 text_messages_received, regional_nodes, regional_messages,
                 client_calls, stopPc>>

\* stop (187-192): the flag cleared, the client disconnected and dropped;
\* with a thread object present the caller goes on to join it.  stop does
\* not assign _connected; the client may or may not run the disconnect
\* handler (218-228, _running already False) inside client.disconnect()
StopBegin ==
  /\ stopPc = "idle"
  /\ mqtt_running' = FALSE
  /\ mqtt_client' = None
  /\ IF mqtt_client # None
       THEN \E called \in BOOLEAN :
              /\ mqtt_connected' = (IF called THEN FALSE ELSE mqtt_connected)
              /\ client_calls' = (IF called THEN <<>> ELSE client_calls)
       ELSE UNCHANGED <<mqtt_connected, client_calls>>
  /\ IF mqtt_thread = "none"
       THEN /\ mqttLastCall' = "stop"
            /\ UNCHANGED stopPc
       ELSE /\ stopPc' = "join"
            /\ UNCHANGED mqttLastCall
  /\ UNCHANGED <<mqtt_thread, messages_received, decoded_ok,
                 decoded_fail, text_messages_received, regional_nodes,
                 regional_messages>>

\* stop (193-195): join(timeout=5) returns when the worker has exited or when
\* the five seconds are over, and stop returns without looking which
StopReturn ==
  /\ stopPc = "join"
  /\ stopPc' = "idle"
  /\ mqttLastCall' = "stop"
  /\ UNCHANGED <<mqtt_running, mqtt_client, mqtt_thread, mqtt_connected,
                 messages_received, decoded_ok, decoded_fail,
                 text_messages_received, regional_nodes, regional_messages,
                 client_calls>>

\* _run_loop (197-198): the while test
RunLoopTest ==
  /\ mqtt_thread = "top"
  /\ mqtt_thread' = IF mqtt_running /\ mqtt_client # None THEN "loop" ELSE "exited"
  /\ UNCHANGED <<mqtt_running, mqtt_client, mqtt_connected, messages_received,
                 decoded_ok, decoded_fail, text_messages_received, regional_nodes,
                 regional_messages, client_calls, stopPc, mqttLastCall>>

\* _run_loop (199-203): client.loop returns, or raises and ends the worker
RunLoopReturn ==
  /\ mqtt_thread = "loop"
  /\ \E raised \in BOOLEAN : mqtt_thread' = IF raised THEN "exited" ELSE "top"
  /\ UNCHANGED <<mqtt_running, mqtt_client, mqtt_connected, messages_received,
                 decoded_ok, decoded_fail, text_messages_received, regional_nodes,
                 regional_messages, client_calls, stopPc, mqttLastCall>>

ReasonCodes == {"Success", "Not authorized"}
ClientCall(op, raised) == [op |-> op, raised |-> raised]

\* _on_connect (206-216), run by the worker inside client.loop
OnBrokerConnect(reason_code) ==
  /\ mqtt_thread = "loop"
  /\ IF reason_code = "Success"
       THEN /\ mqtt_connected' = TRUE
            /\ client_calls' = <<ClientCall("subscribe", FALSE)>>
       ELSE /\ client_calls' = <<>>
            /\ UNCHANGED mqtt_connected
  /\ UNCHANGED <<mqtt_running, mqtt_client, mqtt_thread, messages_received,
                 decoded_ok, decoded_fail, text_messages_received, regional_nodes,
                 regional_messages, stopPc, mqttLastCall>>

\* the disconnect handler asking for a reconnect whatever the running flag
OnBrokerDisconnect_Always ==
  /\ mqtt_thread = "loop"
  /\ mqtt_connected' = FALSE
  /\ \E raised \in BOOLEAN : client_calls' = <<ClientCall("reconnect", raised)>>
  /\ UNCHANGED <<mqtt_running, mqtt_client, mqtt_thread, messages_received,
                 decoded_ok, decoded_fail, text_messages_received, regional_nodes,
                 regional_messages, stopPc, mqttLastCall>>

\* _on_disconnect (218-228), run by the worker inside client.loop: one
\* client.reconnect() when running, its exception caught
OnBrokerDisconnect ==
  /\ mqtt_thread = "loop"
  /\ mqtt_connected' = FALSE
  /\ IF mqtt_running
       THEN \E raised \in BOOLEAN : client_calls' = <<ClientCall("reconnect", raised)>>
       ELSE client_calls' = <<>>
  /\ UNCHANGED <<mqtt_running, mqtt_client, mqtt_thread, messages_received,
                 decoded_ok, decoded_fail, text_messages_received, regional_nodes,
                 regional_messages, stopPc, mqttLastCall>>

RegionalInit ==
  /\ protocol = "meshtastic"
  /\ connection_type = "serial"
  /\ TransportFresh
  /\ ChunkIdle
  /\ EventIdle
  /\ ServiceIdle

RegionalNext ==
  \/ Start /\ UNCHANGED <<transportVars, chunkVars, eventVars, appVars, cryptoVars, sessionVars, lockVars, notifyVars>>
  \/ StopBegin /\ UNCHANGED <<transportVars, chunkVars, eventVars, appVars, cryptoVars, sessionVars, lockVars, notifyVars>>
  \/ StopReturn /\ UNCHANGED <<transportVars, chunkVars, eventVars, appVars, cryptoVars, sessionVars, lockVars, notifyVars>>
  \/ RunLoopTest /\ UNCHANGED <<transportVars, chunkVars, eventVars, appVars, cryptoVars, sessionVars, lockVars, notifyVars>>
  \/ RunLoopReturn /\ UNCHANGED <<transportVars, chunkVars, eventVars, appVars, cryptoVars, sessionVars, lockVars, notifyVars>>
  \/ \E rc \in ReasonCodes :
       OnBrokerConnect(rc) /\ UNCHANGED <<transportVars, chunkVars, eventVars, appVars, cryptoVars, sessionVars, lockVars, notifyVars>>
  \/ OnBrokerDisconnect /\ UNCHANGED <<transportVars, chunkVars, eventVars, appVars, cryptoVars, sessionVars, lockVars, notifyVars>>
  \/ \E p \in RegionalPackets :
       /\ messages_received < MaxPackets
       /\ OnMessage(p)
       /\ UNCHANGED <<transportVars, chunkVars, eventVars, appVars, cryptoVars, sessionVars, lockVars, notifyVars>>

RegionalSpec == RegionalInit /\ [][RegionalNext]_vars

\* ------------------------------------- the table lock, statement by statement
\* _on_message as the worker thread runs it, and the accessors as request
\* threads run them; OnMessage above is the handler run without interruption

serviceRest ==
  <<mqtt_running, mqtt_client, mqtt_thread, mqtt_connected, client_calls,
    stopPc, mqttLastCall>>

\* the positions of _on_message inside "with self._lock" (272-353)
Critical == {"create", "stamp", "port", "count", "trim", "release"}

\* 232-268: the payload counted and decoded; only a decoded packet goes on
HandlerBegin(p) ==
  /\ mqtt_thread = "loop"
  /\ handlerPc = "idle"
  /\ messages_received' = messages_received + 1
  /\ decoded_ok' = IF DecodeOutcome(p) = "ok" THEN decoded_ok + 1 ELSE decoded_ok
  /\ decoded_fail' = IF DecodeOutcome(p) = "fail" THEN decoded_fail + 1 ELSE decoded_fail
  /\ IF DecodeOutcome(p) = "ok"
       THEN handlerPc' = "acquire" /\ handling' = <<p>>
       ELSE UNCHANGED <<handlerPc, handling>>
  /\ UNCHANGED <<text_messages_received, regional_nodes, regional_messages,
                 table_lock, readerPc, observed, serviceRest>>

\* 272: with self._lock, entered when no other thread holds the lock
HandlerAcquire ==
  /\ handlerPc = "acquire"
  /\ table_lock = "free"
  /\ table_lock' = "handler"
  /\ handlerPc' = "create"
  /\ UNCHANGED <<counters, regional_nodes, regional_messages, handling,
                 readerPc, observed, serviceRest>>

\* 273-274: a sender not in the table gets a RegionalNode of defaults
HandlerCreate ==
  LET sender == SenderOf(handling[1].from)
  IN /\ handlerPc = "create"
     /\ regional_nodes' =
          IF sender \in DOMAIN regional_nodes
            THEN regional_nodes
            ELSE Put(regional_nodes, sender, RegionalNode(sender))
     /\ handlerPc' = "stamp"
     /\ UNCHANGED <<counters, regional_messages, table_lock, handling,
                    readerPc, observed, serviceRest>>

\* 276-278: the sender's last_heard and message_count
HandlerStamp ==
  LET sender == SenderOf(handling[1].from)
  IN /\ handlerPc = "stamp"
     /\ regional_nodes' =
          [regional_nodes EXCEPT ![sender] =
             [@ EXCEPT !.last_heard = messages_received, !.message_count = @ + 1]]
     /\ handlerPc' = "port"
     /\ UNCHANGED <<counters, regional_messages, table_lock, handling,
                    readerPc, observed, serviceRest>>

\* 287-353: the branch on portnum; for a text packet the message is built
\* and appended (293-303)
HandlerPort ==
  LET p == handling[1]
      sender == SenderOf(p.from)
      node == regional_nodes[sender]
      target == InfoNodeId(p.info_id)
      t0 == IF target \in DOMAIN regional_nodes
              THEN regional_nodes[target] ELSE RegionalNode(target)
  IN /\ handlerPc = "port"
     /\ CASE p.portnum = "text" ->
               /\ regional_messages' =
                    Append(regional_messages,
                           RegionalMessage(sender, node, messages_received))
               /\ handlerPc' = "count"
               /\ UNCHANGED regional_nodes
          [] p.portnum = "nodeinfo" ->
               /\ regional_nodes' =
                    IF target # ""
                      THEN Put(regional_nodes, target,
                               [t0 EXCEPT !.short_name = RegionalName,
                                          !.last_heard = messages_received])
                      ELSE Put(regional_nodes, sender,
                               [node EXCEPT !.short_name = RegionalName])
               /\ handlerPc' = "release"
               /\ UNCHANGED regional_messages
          [] p.portnum = "position" ->
               /\ regional_nodes' = Put(regional_nodes, sender, [node EXCEPT !.located = TRUE])
               /\ handlerPc' = "release"
               /\ UNCHANGED regional_messages
          [] p.portnum = "telemetry" ->
               /\ regional_nodes' = Put(regional_nodes, sender, [node EXCEPT !.battery = TRUE])
               /\ handlerPc' = "release"
               /\ UNCHANGED regional_messages
          [] OTHER ->
               /\ handlerPc' = "release"
               /\ UNCHANGED <<regional_nodes, regional_messages>>
     /\ UNCHANGED <<counters, table_lock, handling, readerPc, observed, serviceRest>>

\* 304: _text_messages_received += 1
HandlerCount ==
  /\ handlerPc = "count"
  /\ text_messages_received' = text_messages_received + 1
  /\ handlerPc' = "trim"
  /\ UNCHANGED <<messages_received, decoded_ok, decoded_fail, regional_nodes,
                 regional_messages, table_lock, handling, readerPc, observed,
                 serviceRest>>

\* the trim left out: the buffer keeps every message
HandlerTrim_Skips ==
  /\ handlerPc = "trim"
  /\ handlerPc' = "release"
  /\ UNCHANGED <<counters, regional_nodes, regional_messages, table_lock,
                 handling, readerPc, observed, serviceRest>>

\* 305-306: the buffer trimmed to its last _max_messages entries
HandlerTrim ==
  /\ handlerPc = "trim"
  /\ regional_messages' = Evict(regional_messages)
  /\ handlerPc' = "release"
  /\ UNCHANGED <<counters, regional_nodes, table_lock, handling, readerPc,
                 observed, serviceRest>>

\* the end of the with block: the lock released, the handler returns
HandlerRelease ==
  /\ handlerPc = "release"
  /\ table_lock' = "free"
  /\ handlerPc' = "idle"
  /\ handling' = <<>>
  /\ UNCHANGED <<counters, regional_nodes, regional_messages, readerPc,
                 observed, serviceRest>>

\* the accessors of the service and the arguments they are called with
Accessors == {"get_nodes", "get_node", "get_messages", "get_stats"}
DefaultLimit == 50

\* an accessor that goes on to read without taking the lock
ReaderAcquire_NoLock(op) ==
  /\ readerPc = "idle"
  /\ readerPc' = op
  /\ UNCHANGED <<counters, regional_nodes, regional_messages, table_lock,
                 handlerPc, handling, observed, serviceRest>>

\* 360, 367, 373, 379: with self._lock at the top of every accessor
ReaderAcquire(op) ==
  /\ readerPc = "idle"
  /\ table_lock = "free"
  /\ table_lock' = "reader"
  /\ readerPc' = op
  /\ UNCHANGED <<counters, regional_nodes, regional_messages, handlerPc,
                 handling, observed, serviceRest>>

\* a node without its last-heard time (the dataclass default, 68)
Unstamped(n) == n.last_heard = 0

\* 361, 368-369, 374, 380-381: what the accessor reads inside the with
\* block: how many nodes and messages it found and whether a node it turned
\* into a dict had no last-heard time
Found(op) ==
  LET wanted == SenderOf(2)
      seen == CASE op = "get_nodes" -> DOMAIN regional_nodes
                [] op = "get_node" -> DOMAIN regional_nodes \cap {wanted}
                [] OTHER -> {}
  IN [op |-> op,
      nodes |-> IF op = "get_stats" THEN Cardinality(DOMAIN regional_nodes)
                                    ELSE Cardinality(seen),
      messages |-> CASE op = "get_messages" -> Len(GetMessages(DefaultLimit))
                     [] op = "get_stats" -> Len(regional_messages)
                     [] OTHER -> 0,
      unstamped |-> \E id \in seen : Unstamped(regional_nodes[id])]

\* the body of the with block and its end: the read, the lock released
ReaderRead ==
  /\ readerPc # "idle"
  /\ observed' = <<Found(readerPc)>>
  /\ table_lock' = "free"
  /\ readerPc' = "idle"
  /\ UNCHANGED <<counters, regional_nodes, regional_messages, handlerPc,
                 handling, serviceRest>>

LockPackets == BufferPackets

LockInit == BufferInit

LockNext ==
  \/ \E p \in LockPackets :
       /\ text_messages_received < MaxTexts
       /\ HandlerBegin(p)
       /\ UNCHANGED <<transportVars, chunkVars, eventVars, appVars, cryptoVars, sessionVars, notifyVars>>
  \/ HandlerAcquire /\ UNCHANGED <<transportVars, chunkVars, eventVars, appVars, cryptoVars, sessionVars, notifyVars>>
  \/ HandlerCreate /\ UNCHANGED <<transportVars, chunkVars, eventVars, appVars, cryptoVars, sessionVars, notifyVars>>
  \/ HandlerStamp /\ UNCHANGED <<transportVars, chunkVars, eventVars, appVars, cryptoVars, sessionVars, notifyVars>>
  \/ HandlerPort /\ UNCHANGED <<transportVars, chunkVars, eventVars, appVars, cryptoVars, sessionVars, notifyVars>>
  \/ HandlerCount /\ UNCHANGED <<transportVars, chunkVars, eventVars, appVars, cryptoVars, sessionVars, notifyVars>>
  \/ HandlerTrim /\ UNCHANGED <<transportVars, chunkVars, eventVars, appVars, cryptoVars, sessionVars, notifyVars>>
  \/ HandlerRelease /\ UNCHANGED <<transportVars, chunkVars, eventVars, appVars, cryptoVars, sessionVars, notifyVars>>
  \/ \E op \in Accessors :
       ReaderAcquire(op) /\ UNCHANGED <<transportVars, chunkVars, eventVars, appVars, cryptoVars, sessionVars, notifyVars>>
  \/ ReaderRead /\ UNCHANGED <<transportVars, chunkVars, eventVars, appVars, cryptoVars, sessionVars, notifyVars>>

LockSpec == LockInit /\ [][LockNext]_vars


\* C23: every successfully decoded packet, whatever its type, creates or
\* updates the record keyed by its sender id and creates or modifies no
\* other node record.
C23_OneNodePerPacket ==
  [][ \A p \in RegionalPackets :
        OnMessage(p) /\ p.body \in {"decoded", "encrypted"} =>
          /\ SenderOf(p.from) \in DOMAIN regional_nodes'
          /\ \A id \in DOMAIN regional_nodes' \ {SenderOf(p.from)} :
               /\ id \in DOMAIN regional_nodes
               /\ regional_nodes'[id] = regional_nodes[id] ]_vars

\* C24: when an encrypted packet cannot be decrypted, or its decrypted bytes
\* cannot be parsed, the failure counter grows by exactly one, the success
\* counter, the node table and the message buffer stay as they were, and the
\* worker goes on in its loop (no error leaves the handler).
C24_DecodeFailure ==
  [][ \A p \in RegionalPackets :
        OnMessage(p) /\ p.body \in {"garbled", "undecryptable"} =>
          /\ decoded_fail' = decoded_fail + 1
          /\ decoded_ok' = decoded_ok
          /\ regional_nodes' = regional_nodes
          /\ regional_messages' = regional_messages
          /\ text_messages_received' = text_messages_received
          /\ mqtt_thread' = "loop" ]_vars

\* a decoded packet and then one that failed to decode: one of each counted,
\* the worker still in its loop
C24_Witness ==
  /\ decoded_ok = 1
  /\ decoded_fail = 1
  /\ messages_received = 2
  /\ mqtt_thread = "loop"

\* C25: after stop() has returned nothing changes the node table, the message
\* buffer or the counters (the worker has fully exited).
C25_StopQuiesces ==
  [][ mqttLastCall = "stop" /\ stopPc = "idle" /\ mqttLastCall' = "stop" =>
        UNCHANGED <<regional_nodes, regional_messages, counters>> ]_vars

\* C26: on a broker disconnect the handler marks the service disconnected and,
\* when running, calls client.reconnect exactly once, a failure of which does
\* not end the worker; when not running it makes no call; on a successful
\* connect the handler subscribes to the topic.
C26_Reconnect ==
  [][ /\ OnBrokerDisconnect =>
           /\ ~mqtt_connected'
           /\ mqtt_thread' = "loop"
           /\ IF mqtt_running
                THEN /\ Len(client_calls') = 1
                     /\ client_calls'[1].op = "reconnect"
                ELSE client_calls' = <<>>
      /\ OnBrokerConnect("Success") =>
           /\ mqtt_connected'
           /\ client_calls' = <<ClientCall("subscribe", FALSE)>> ]_vars

\* a reconnect that failed while running: the worker is still in its loop
C26_Witness ==
  /\ mqtt_running
  /\ mqtt_thread = "loop"
  /\ ~mqtt_connected
  /\ client_calls = <<ClientCall("reconnect", TRUE)>>

\* ------------------------------------------------- application startup
\* main.py lifespan: the transport is built from config.mesh.protocol, the
\* two observers are registered, connect() is awaited once, and the
\* application serves until shutdown disconnects the transport.
ConfigProtocols == Protocols \cup {"zigbee"}
otherVars == <<chunkVars, regionalVars, cryptoVars, sessionVars, lockVars, notifyVars>>

\* lifespan 151-176: build the transport and register the observers; an
\* unknown protocol raises ValueError out of the lifespan
LifespanBuild ==
  /\ app = "startup"
  /\ IF protocol \in Protocols
       THEN /\ app' = "connecting"
            /\ observers' =
                 [observers EXCEPT !["message"] = Append(@, "sync_message_handler"),
                                   !["node"] = Append(@, "handle_node_update")]
       ELSE /\ app' = "failed"
            /\ UNCHANGED observers
  /\ UNCHANGED <<now, ticks, last_heard, registry, held, inbox, delivered>>
  /\ UNCHANGED <<transportVars, otherVars>>

\* lifespan 179: the one connect() call of the startup
LifespanConnect ==
  /\ app = "connecting"
  /\ lastCall = "none"
  /\ ConnectBegin \/ CoreConnectBegin
  /\ UNCHANGED <<eventVars, otherVars, appVars>>

\* lifespan 180-207: whatever connect() returned the startup goes on and the
\* application serves ("running in offline mode" after False); an exception
\* raised by connect() leaves the lifespan
LifespanContinue ==
  /\ app = "connecting"
  /\ mainPc = "idle"
  /\ lastCall \in {"connect_true", "connect_false", "connect_raised"}
  /\ app' = IF lastCall = "connect_raised" THEN "failed" ELSE "ready"
  /\ UNCHANGED <<transportVars, eventVars, otherVars>>

\* lifespan 211-217: shutdown disconnects the transport
LifespanShutdown ==
  /\ app = "ready"
  /\ Disconnect
  /\ app' = "stopped"
  /\ UNCHANGED <<eventVars, otherVars>>

StartupInit ==
  /\ protocol \in ConfigProtocols
  /\ connection_type \in ConnectionTypes
  /\ TransportFresh
  /\ ChunkIdle
  /\ EventIdle
  /\ ServiceIdle

\* the transport exists: its connect() steps, its event handlers and its
\* reconnection workers run
TransportBuilt == app \in {"connecting", "ready", "stopped"}

StartupNext ==
  \/ LifespanBuild
  \/ LifespanConnect
  \/ LifespanContinue
  \/ LifespanShutdown
  \/ TransportBuilt /\ ConnectOpen /\ UNCHANGED <<queryVars, eventVars, otherVars, appVars>>
  \/ TransportBuilt /\ ConnectSetup /\ UNCHANGED <<queryVars, eventVars, otherVars, appVars>>
  \/ TransportBuilt /\ ConnectFinish /\ UNCHANGED <<queryVars, eventVars, otherVars, appVars>>
  \/ TransportBuilt /\ CoreConnectRaise /\ UNCHANGED <<queryVars, eventVars, otherVars, appVars>>
  \/ TransportBuilt /\ OnDisconnect /\ UNCHANGED <<queryVars, eventVars, otherVars, appVars>>
  \/ TransportBuilt /\ OnConnection /\ UNCHANGED <<queryVars, eventVars, otherVars, appVars>>
  \/ \E w \in Workers :
       TransportBuilt /\ WorkerStep(w) /\ UNCHANGED <<queryVars, eventVars, otherVars, appVars>>

StartupSpec == StartupInit /\ [][StartupNext]_vars

\* the configuration names a transport kind the code does not know
UnknownTransportKind ==
  \/ protocol \notin Protocols
  \/ protocol = "meshtastic" /\ connection_type \notin KnownConnectionTypes

\* C27: with an unknown transport kind in the configuration (unknown mesh
\* protocol, or unknown device connection type) the startup fails: the
\* application never gets past it into serving with a transport whose
\* connect() returned False.
C27_UnknownKindFatal ==
  UnknownTransportKind => app \notin {"ready", "stopped"}

\* ------------------------------------------------------- decrypt_packet
\* services/mqtt_regional.py 28-58.  A 32-bit id is held as its two 16-bit
\* halves <<high, low>>; a byte string is a sequence of 0..255.

\* ids of 32 bits: 0, 1, 0x0a1b2c3d, 0xffffffff
Ids == {<<0, 0>>, <<0, 1>>, <<2587, 11325>>, <<65535, 65535>>}
PlainBytes == {0, 65, 255}
Plaintexts == UNION {[1..n -> PlainBytes] : n \in 0..MaxPlainLen}

\* 30: DEFAULT_KEY = base64.b64decode('AQ==')
DEFAULT_KEY == <<1>>
Keys == {DEFAULT_KEY, <<>>}

RECURSIVE BitXor(_, _)
BitXor(a, b) ==
  IF a = 0 /\ b = 0
    THEN 0
    ELSE ((a + b) % 2) + 2 * BitXor(a \div 2, b \div 2)

RECURSIVE Pow2(_)
Pow2(n) == IF n = 0 THEN 1 ELSE 2 * Pow2(n - 1)

\* id >> shift & 0xff
ShiftMask(id, shift) ==
  IF shift >= 16
    THEN (id[1] \div Pow2(shift - 16)) % 256
    ELSE (id[2] \div Pow2(shift)) % 256

\* the nonce with both ids laid out least significant byte first
Nonce_LittleEndian(pid, fid) ==
  <<ShiftMask(pid, 0), ShiftMask(pid, 8), ShiftMask(pid, 16), ShiftMask(pid, 24),
    0, 0, 0, 0,
    ShiftMask(fid, 0), ShiftMask(fid, 8), ShiftMask(fid, 16), ShiftMask(fid, 24),
    0, 0, 0, 0>>

\* 40-47: the nonce decrypt_packet builds
Nonce(pid, fid) ==
  <<ShiftMask(pid, 24), ShiftMask(pid, 16), ShiftMask(pid, 8), ShiftMask(pid, 0),
    0, 0, 0, 0,
    ShiftMask(fid, 24), ShiftMask(fid, 16), ShiftMask(fid, 8), ShiftMask(fid, 0),
    0, 0, 0, 0>>

\* 37: (key * 32)[:32]
ExpandKey(k) ==
  LET n == IF 32 * Len(k) < 32 THEN 32 * Len(k) ELSE 32
  IN [i \in 1..n |-> k[((i - 1) % Len(k)) + 1]]

RECURSIVE WeightedSum(_, _)
WeightedSum(bytes, w) ==
  IF bytes = <<>> THEN 0 ELSE w * Head(bytes) + WeightedSum(Tail(bytes), w + 1)

\* the block cipher of the cryptography library, which is not part of the
\* repository: a keyed function from a 16-byte block to 16 bytes standing for
\* AES; CTR mode uses it in the encrypting direction only
BlockCipher(k, block) ==
  [j \in 1..16 |-> (WeightedSum(block, j) + WeightedSum(k, 1) + 31 * j + 7) % 256]

\* the 16-byte counter block, a big-endian number, plus one
RECURSIVE Increment(_)
Increment(block) ==
  IF block = <<>>
    THEN <<>>
    ELSE IF block[Len(block)] < 255
           THEN [block EXCEPT ![Len(block)] = @ + 1]
           ELSE Append(Increment(SubSeq(block, 1, Len(block) - 1)), 0)

RECURSIVE CounterBlock(_, _)
CounterBlock(n, b) == IF b = 0 THEN n ELSE Increment(CounterBlock(n, b - 1))

\* modes.CTR: byte i of the data is xored with byte i of the key stream, the
\* encryptions of the successive counter blocks
Ctr(k, n, data) ==
  [i \in 1..Len(data) |->
     BitXor(data[i], BlockCipher(k, CounterBlock(n, (i - 1) \div 16))[((i - 1) % 16) + 1])]

\* 49-55: Cipher(AES(expanded_key), CTR(nonce)) raises ValueError for a key
\* that is not 16, 24 or 32 bytes long
CipherAccepts(k, n) == Len(k) \in {16, 24, 32} /\ Len(n) = 16

\* decrypt_packet (33-58): the bytes, or None (<<>>) when anything raised;
\* a result is wrapped as <<bytes>>
DecryptPacket(data, k, pid, fid) ==
  IF CipherAccepts(ExpandKey(k), Nonce(pid, fid))
    THEN <<Ctr(ExpandKey(k), Nonce(pid, fid), data)>>
    ELSE <<>>

\* the sender's side as the firmware's channel encryption is described: the
\* default key repeated to 32 bytes, and the nonce big-endian packet id, four
\* zero bytes, big-endian sender id, four zero bytes
BigEndian(id) == <<id[1] \div 256, id[1] % 256, id[2] \div 256, id[2] % 256>>
SenderNonce(pid, fid) ==
  BigEndian(pid) \o <<0, 0, 0, 0>> \o BigEndian(fid) \o <<0, 0, 0, 0>>

Encrypt ==
  /\ cryptoPc = "plain"
  /\ encrypted_data' =
       Ctr([i \in 1..32 |-> 1], SenderNonce(packet_id, from_id), plaintext)
  /\ cryptoPc' = "cipher"
  /\ UNCHANGED <<plaintext, packet_id, from_id, key, call_packet_id,
                 call_from_id, nonce, decrypted>>

\* one call decrypt_packet(encrypted_data, k, pid, fid)
Decrypt(k, pid, fid) ==
  /\ cryptoPc = "cipher"
  /\ key' = k
  /\ call_packet_id' = pid
  /\ call_from_id' = fid
  /\ nonce' = Nonce(pid, fid)
  /\ decrypted' = DecryptPacket(encrypted_data, k, pid, fid)
  /\ cryptoPc' = "done"
  /\ UNCHANGED <<plaintext, packet_id, from_id, encrypted_data>>

CryptoInit ==
  /\ protocol = "meshtastic"
  /\ connection_type = "serial"
  /\ TransportFresh
  /\ ChunkIdle
  /\ EventIdle
  /\ RegionalIdle
  /\ app = "startup"
  /\ NotifyIdle
  /\ plaintext \in Plaintexts
  /\ packet_id \in Ids
  /\ from_id \in Ids
  /\ encrypted_data = <<>>
  /\ key = <<>>
  /\ call_packet_id = <<0, 0>>
  /\ call_from_id = <<0, 0>>
  /\ nonce = <<>>
  /\ decrypted = <<>>
  /\ cryptoPc = "plain"
  /\ session_nodes = <<>>

CryptoNext ==
  \/ Encrypt /\ UNCHANGED <<transportVars, chunkVars, eventVars, regionalVars, appVars, sessionVars, lockVars, notifyVars>>
  \/ \E k \in Keys, pid \in Ids, fid \in Ids :
       Decrypt(k, pid, fid)
         /\ UNCHANGED <<transportVars, chunkVars, eventVars, regionalVars, appVars, sessionVars, lockVars, notifyVars>>

CryptoSpec == CryptoInit /\ [][CryptoNext]_vars

\* C28: decrypt_packet called with the default key and the pair the sender
\* used returns the sender's plaintext; the nonce it builds is the stated
\* layout of its own pair, and that layout gives different nonces to
\* different pairs; called with another pair it still returns bytes of the
\* ciphertext's length (nothing is raised).
C28_RoundTrip ==
  /\ cryptoPc = "done" =>
       /\ nonce = SenderNonce(call_packet_id, call_from_id)
       /\ key = DEFAULT_KEY =>
            /\ Len(decrypted) = 1
            /\ Len(decrypted[1]) = Len(encrypted_data)
            /\ (call_packet_id = packet_id /\ call_from_id = from_id) =>
                 decrypted[1] = plaintext
  /\ \A a \in Ids, b \in Ids, c \in Ids, d \in Ids :
       SenderNonce(a, b) = SenderNonce(c, d) => a = c /\ b = d

\* a plaintext of full length sent with packet id 0xffffffff by 0x0a1b2c3d
\* came back from decrypt_packet, and the ciphertext differed from it
C28_Witness ==
  /\ cryptoPc = "done"
  /\ key = DEFAULT_KEY
  /\ packet_id = <<65535, 65535>>
  /\ from_id = <<2587, 11325>>
  /\ call_packet_id = packet_id
  /\ call_from_id = from_id
  /\ Len(plaintext) = MaxPlainLen
  /\ encrypted_data # plaintext
  /\ decrypted = <<plaintext>>

\* ------------------------------------------------------- bulk node load
\* _load_nodes (190-208) over the node database of the session: one entry
\* per key, in dict order; ok tells whether _parse_node can build a MeshNode
\* from the record (a record whose fields _parse_node chokes on is not ok)
SessionKeys == {"0a1b2c3d", "!00000002"}
SessionEntries == [key : SessionKeys, name : Names, lastHeard : {0, 1}, ok : BOOLEAN]
Databases ==
  {db \in UNION {[1..n -> SessionEntries] : n \in 0..MaxDbLen} :
     \A i \in 1..Len(db), j \in 1..Len(db) : db[i].key = db[j].key => i = j}

\* _is_node_online (210-215) against a given last-heard map
OnlineIn(lh, id) ==
  /\ id \in DOMAIN lh
  /\ lh[id] # NoSample
  /\ now - lh[id] < OnlineWindow

\* the parse handing back a partly filled record where it failed
ParsedEntry_Partial(e, lh) ==
  <<[node_id |-> Normalize(e.key), short_name |-> e.name,
     is_online |-> OnlineIn(lh, Normalize(e.key))]>>

\* _parse_node (217-246) on a session entry: the MeshNode, or None (<<>>)
\* when building it raised
ParsedEntry(e, lh) ==
  IF e.ok
    THEN <<[node_id |-> Normalize(e.key), short_name |-> e.name,
            is_online |-> OnlineIn(lh, Normalize(e.key))]>>
    ELSE <<>>

\* _load_nodes, 194-206: for each entry the id is normalised, a truthy
\* lastHeard becomes the node's sample, the record is parsed and, if that
\* gave a MeshNode, stored under its id
RECURSIVE LoadNodes(_, _, _)
LoadNodes(db, reg, lh) ==
  IF db = <<>>
    THEN [registry |-> reg, last_heard |-> lh]
    ELSE LET e == Head(db)
             id == Normalize(e.key)
             lh1 == IF e.lastHeard # 0 THEN Put(lh, id, e.lastHeard) ELSE lh
             node == ParsedEntry(e, lh1)
         IN LoadNodes(Tail(db),
                      IF node # <<>> THEN Put(reg, node[1].node_id, node[1]) ELSE reg,
                      lh1)

\* connect, lines 77-90, with the session's node database spelled out
ConnectSetupLoad ==
  /\ mainPc = "connect_setup"
  /\ IF interface = None
       THEN /\ state' = ERROR
            /\ mainPc' = "idle"
            /\ lastCall' = "connect_false"
            /\ UNCHANGED <<my_node_id, subscribed, nodes, running, registry, last_heard>>
       ELSE /\ \E hasInfo \in BOOLEAN :
                 my_node_id' = IF hasInfo THEN LocalId ELSE my_node_id
            /\ registry' = LoadNodes(session_nodes, registry, last_heard).registry
            /\ last_heard' = LoadNodes(session_nodes, registry, last_heard).last_heard
            /\ nodes' = DOMAIN registry'
            /\ subscribed' = subscribed \cup Topics
            /\ running' = TRUE
            /\ mainPc' = "connect_finish"
            /\ UNCHANGED <<state, lastCall>>
  /\ UNCHANGED <<protocol, connection_type, interface, reconnecting, workers,
                 probed, sent>>
  /\ UNCHANGED <<now, ticks, held, inbox, observers, delivered>>

\* a fresh device transport with one node-update observer, about to be
\* connected to a session with some node database
LoadInit ==
  /\ protocol = "meshtastic"
  /\ connection_type = "serial"
  /\ TransportFresh
  /\ ChunkIdle
  /\ now = 1
  /\ ticks = 0
  /\ last_heard = [id \in NodeIds |-> NoSample]
  /\ registry = <<>>
  /\ held = <<>>
  /\ inbox = <<>>
  /\ observers = [t \in EventTypes |-> IF t = "node" THEN <<"o1">> ELSE <<>>]
  /\ delivered = <<>>
  /\ RegionalIdle
  /\ app = "startup"
  /\ NotifyIdle
  /\ CryptoIdle
  /\ session_nodes \in Databases

LoadNext ==
  \/ ConnectBegin /\ UNCHANGED <<eventVars, otherVars, appVars>>
  \/ ConnectOpen /\ UNCHANGED <<queryVars, eventVars, otherVars, appVars>>
  \/ ConnectSetupLoad /\ UNCHANGED <<otherVars, appVars>>
  \/ ConnectFinish /\ UNCHANGED <<queryVars, eventVars, otherVars, appVars>>
  \/ Disconnect /\ UNCHANGED <<eventVars, otherVars, appVars>>
  \/ OnNodeUpdateEvent /\ UNCHANGED <<otherVars, appVars>>

LoadSpec == LoadInit /\ [][LoadNext]_vars

\* C29: a node record that fails to parse is skipped.  In the bulk load the
\* registry entry of such a node stays as it was (absent or the old record),
\* every record that parses is stored whatever failed before it, no observer
\* is invoked and connect() goes on; in a node-update event the registry is
\* left alone, no observer is invoked and the handler returns normally.
C29_ParseFailureSkipped ==
  [][ /\ (ConnectSetupLoad /\ interface # None) =>
           /\ \A i \in 1..Len(session_nodes) :
                LET e == session_nodes[i]
                    id == Normalize(e.key)
                IN IF e.ok
                     THEN /\ id \in DOMAIN registry'
                          /\ registry'[id].short_name = e.name
                     ELSE IF id \in DOMAIN registry
                            THEN /\ id \in DOMAIN registry'
                                 /\ registry'[id] = registry[id]
                            ELSE id \notin DOMAIN registry'
           /\ delivered' = delivered
           /\ mainPc' = "connect_finish"
      /\ \A id \in NodeIds, nm \in Names :
           NodeUpdate(id, nm, FALSE) =>
             /\ registry' = registry
             /\ delivered' = <<>>
             /\ UNCHANGED <<state, mainPc, lastCall>> ]_vars

\* connect() returned True on a session whose first record did not parse and
\* whose second did: only the second is in the registry
C29_Witness ==
  /\ lastCall = "connect_true"
  /\ Len(session_nodes) = 2
  /\ ~session_nodes[1].ok
  /\ session_nodes[2].ok
  /\ DOMAIN registry = {Normalize(session_nodes[2].key)}

\* ---------------------------------------------- the loop and its flag
\* _reconnecting is written at 345 (set, by _start_reconnect) and at 397 and
\* 412 (cleared, by a loop that is past its last iteration).  A loop that is
\* between its while test and the end of an attempt therefore always finds
\* the flag set, and it is the only such loop.
LoopBody == {"top", "sleep", "open", "setup"}
LoopHoldsFlag ==
  /\ \A w \in Workers : workers[w].pc \in LoopBody => reconnecting
  /\ Cardinality({w \in Workers : workers[w].pc \in LoopBody}) <= 1


\* ------------------------------------------ the registry over the lifecycle
\* a reconnection whose reload starts from an empty registry
WorkerSetupLoad_Replaces(w) ==
  /\ workers[w].pc = "setup"
  /\ IF interface = None
       THEN /\ workers' = [workers EXCEPT ![w].pc = "top"]
            /\ UNCHANGED <<my_node_id, subscribed, nodes, running, reconnecting,
                           registry, last_heard>>
       ELSE /\ \E hasInfo \in BOOLEAN :
                 my_node_id' = IF hasInfo THEN LocalId ELSE my_node_id
            /\ registry' = LoadNodes(session_nodes, <<>>, last_heard).registry
            /\ last_heard' = LoadNodes(session_nodes, <<>>, last_heard).last_heard
            /\ nodes' = DOMAIN registry'
            /\ subscribed' = subscribed \cup Topics
            /\ running' = TRUE
            /\ reconnecting' = FALSE
            /\ workers' = [workers EXCEPT ![w] = [pc |-> "finish", attempts |-> 0]]
  /\ UNCHANGED <<protocol, connection_type, state, interface, mainPc, lastCall,
                 probed, sent>>
  /\ UNCHANGED <<now, ticks, held, inbox, observers, delivered>>

\* reconnect_loop, 384-397, with the session's node database spelled out
WorkerSetupLoad(w) ==
  /\ workers[w].pc = "setup"
  /\ IF interface = None
       THEN /\ workers' = [workers EXCEPT ![w].pc = "top"]
            /\ UNCHANGED <<my_node_id, subscribed, nodes, running, reconnecting,
                           registry, last_heard>>
       ELSE /\ \E hasInfo \in BOOLEAN :
                 my_node_id' = IF hasInfo THEN LocalId ELSE my_node_id
            /\ registry' = LoadNodes(session_nodes, registry, last_heard).registry
            /\ last_heard' = LoadNodes(session_nodes, registry, last_heard).last_heard
            /\ nodes' = DOMAIN registry'
            /\ subscribed' = subscribed \cup Topics
            /\ running' = TRUE
            /\ reconnecting' = FALSE
            /\ workers' = [workers EXCEPT ![w] = [pc |-> "finish", attempts |-> 0]]
  /\ UNCHANGED <<protocol, connection_type, state, interface, mainPc, lastCall,
                 probed, sent>>
  /\ UNCHANGED <<now, ticks, held, inbox, observers, delivered>>

\* the node database of one parseable record with its lastHeard set, of a
\* node other than the one the events are about
RegistryDatabases ==
  {db \in Databases :
     /\ Len(db) = 1
     /\ Normalize(db[1].key) \notin NodeIds
     /\ db[1].lastHeard = 1
     /\ db[1].ok}

\* the position packets of a known sender
RegistryPackets == {p \in Packets : p.kind = "position" /\ p.fromId \in NodeIds}

\* a fresh device transport, no observer registered, about to be connected
\* to a session with some node database
RegistryInit ==
  /\ protocol = "meshtastic"
  /\ connection_type = "serial"
  /\ TransportFresh
  /\ ChunkIdle
  /\ EventIdle
  /\ RegionalIdle
  /\ app = "startup"
  /\ NotifyIdle
  /\ CryptoIdle
  /\ session_nodes \in RegistryDatabases

RegistryNext ==
  \/ ConnectBegin /\ UNCHANGED <<eventVars, otherVars, appVars>>
  \/ ConnectOpen /\ UNCHANGED <<queryVars, eventVars, otherVars, appVars>>
  \/ ConnectSetupLoad /\ UNCHANGED <<otherVars, appVars>>
  \/ ConnectFinish /\ UNCHANGED <<queryVars, eventVars, otherVars, appVars>>
  \/ Disconnect /\ UNCHANGED <<eventVars, otherVars, appVars>>
  \/ OnDisconnect /\ UNCHANGED <<queryVars, eventVars, otherVars, appVars>>
  \/ \E w \in Workers :
       WorkerLoop(w) /\ UNCHANGED <<queryVars, eventVars, otherVars, appVars>>
  \/ \E w \in Workers :
       WorkerWake(w) /\ UNCHANGED <<queryVars, eventVars, otherVars, appVars>>
  \/ \E w \in Workers :
       WorkerOpen(w) /\ UNCHANGED <<queryVars, eventVars, otherVars, appVars>>
  \/ \E w \in Workers : WorkerSetupLoad(w) /\ UNCHANGED <<otherVars, appVars>>
  \/ \E w \in Workers :
       WorkerFinish(w) /\ UNCHANGED <<queryVars, eventVars, otherVars, appVars>>
  \/ \E w \in Workers :
       WorkerGiveUp(w) /\ UNCHANGED <<queryVars, eventVars, otherVars, appVars>>
  \/ \E w \in Workers :
       WorkerError(w) /\ UNCHANGED <<queryVars, eventVars, otherVars, appVars>>
  \/ \E p \in RegistryPackets : OnReceive(p) /\ UNCHANGED <<otherVars, appVars>>
  \/ OnNodeUpdateEvent /\ UNCHANGED <<otherVars, appVars>>

RegistrySpec == RegistryInit /\ [][RegistryNext]_vars


\* ------------------------------- _set_connection_state, statement by statement
\* the states a thread's code passes to _set_connection_state: reconnect_loop
\* (357, 398, 413); _on_connection (302) and _on_disconnect (325)
ThreadStates(t) ==
  IF t = "worker" THEN {CONNECTING, CONNECTED, ERROR} ELSE {CONNECTED, DISCONNECTED}

\* base.py 222: self._state = state, the first statement of the call
SetStateAssign(t, s) ==
  /\ notifying[t] = <<>>
  /\ state' = s
  /\ notifying' = [notifying EXCEPT ![t] =
                     IF observers["connection"] = <<>>
                       THEN <<>> ELSE <<[value |-> s, next |-> 1]>>]
  /\ UNCHANGED last_delivered
  /\ UNCHANGED eventVars
  /\ UNCHANGED <<protocol, connection_type, interface, running, reconnecting,
                 subscribed, my_node_id, nodes, mainPc, lastCall, probed, sent,
                 workers>>

\* base.py 223-227: the next callback of the list called with the value the
\* call was made with; what the callback raises is caught
SetStateCall(t) ==
  /\ notifying[t] # <<>>
  /\ LET call == notifying[t][1]
         cbs == observers["connection"]
     IN /\ last_delivered' = Put(last_delivered, cbs[call.next], call.value)
        /\ notifying' = [notifying EXCEPT ![t] =
                           IF call.next = Len(cbs)
                             THEN <<>> ELSE <<[call EXCEPT !.next = @ + 1]>>]
  /\ UNCHANGED eventVars
  /\ UNCHANGED transportVars

\* a connected transport with two connection observers registered
NotifyInit ==
  /\ Connected
  /\ ChunkIdle
  /\ ServiceIdle
  /\ now = 1
  /\ ticks = 0
  /\ last_heard = [id \in NodeIds |-> NoSample]
  /\ registry = <<>>
  /\ nodes = {}
  /\ held = <<>>
  /\ inbox = <<>>
  /\ observers = [t \in EventTypes |-> IF t = "connection" THEN <<"o1", "o2">> ELSE <<>>]
  /\ delivered = <<>>

NotifyNext ==
  \/ \E t \in NotifyThreads : \E s \in ThreadStates(t) :
       SetStateAssign(t, s) /\ UNCHANGED <<chunkVars, regionalVars, appVars, cryptoVars, sessionVars, lockVars>>
  \/ \E t \in NotifyThreads :
       SetStateCall(t) /\ UNCHANGED <<chunkVars, regionalVars, appVars, cryptoVars, sessionVars, lockVars>>

NotifySpec == NotifyInit /\ [][NotifyNext]_vars

\* ------------------------------------------------------------------------
\* Claims about the transport's threads, registry and observers

C32_TableLock ==
  [][ /\ regional_nodes' # regional_nodes \/ regional_messages' # regional_messages =>
           table_lock = "handler" /\ table_lock' = "handler"
      /\ readerPc # "idle" /\ readerPc' = "idle" =>
           /\ table_lock = "reader"
           /\ handlerPc \notin Critical
           /\ Found(readerPc).messages <= MaxMessages
           /\ ~Found(readerPc).unstamped
           /\ observed' = <<Found(readerPc)>> ]_vars

\* the handler holds the lock with 101 messages in the buffer, before the
\* trim; the last get_stats, made under the lock, found a full buffer of 100
C32_Witness ==
  /\ handlerPc = "trim"
  /\ table_lock = "handler"
  /\ Len(regional_messages) = MaxMessages + 1
  /\ observed = <<[op |-> "get_stats", nodes |-> 1, messages |-> MaxMessages,
                   unstamped |-> FALSE]>>

\* C33: every write to the registry is made by a subscription callback: a
\* step that changes the registry is neither a step of the thread inside
\* connect() nor a step of a reconnect_loop thread.
C33_CallbackWritesOnly ==
  [][ nodes' # nodes => mainPc' = mainPc /\ workers' = workers ]_vars

\* C34: no step removes a key of the registry, and every record is stored
\* under its own "!"-prefixed node id, so no node has two entries.
C34_RegistryGrows ==
  [][ /\ DOMAIN registry \subseteq DOMAIN registry'
      /\ nodes \subseteq nodes'
      /\ \A id \in DOMAIN registry' :
           /\ registry'[id].node_id = id
           /\ Normalize(id) = id ]_vars

\* a reconnection has just reloaded the session's one node: the registry
\* still holds the node a node-update event had added as well
C34_Witness ==
  /\ \E w \in Workers : workers[w].pc = "finish"
  /\ interface = "worker"
  /\ DOMAIN registry = NodeIds \cup {Normalize(session_nodes[1].key)}
  /\ Cardinality(DOMAIN registry) = 2

\* C35: whenever no thread is inside _set_connection_state, the last value
\* each connection observer was called with is the transport's state.
C35_ObserversCurrent ==
  (\A t \in NotifyThreads : notifying[t] = <<>>) =>
     \A o \in DOMAIN last_delivered : last_delivered[o] = state

\* C36: whenever the state is Connected and neither connect() nor a
\* reconnection loop is in progress, a session handle is held and the
\* running flag is set.
C36_ConnectedHoldsSession ==
  state = CONNECTED /\ mainPc = "idle" /\ ActiveWorkers = {} /\ ~reconnecting =>
    interface # None /\ running

\* C37: whenever no thread holds the table lock, the buffer holds
\* min(text messages received, 100) messages.
C37_BufferMatchesCounter ==
  table_lock = "free" =>
    Len(regional_messages) = Min(text_messages_received, MaxMessages)

\* the 102nd text packet has been handled and the lock released: 100 buffered
C37_Witness ==
  /\ table_lock = "free"
  /\ handlerPc = "idle"
  /\ text_messages_received = MaxMessages + 2
  /\ Len(regional_messages) = MaxMessages

\* C38: handling a payload adds exactly one to messages_received and at
\* most one to decoded_ok and decoded_fail together; no step lowers a
\* counter, and decoded_ok + decoded_fail never exceeds messages_received.
C38_Counters ==
  [][ /\ \A p \in RegionalPackets :
           OnMessage(p) =>
             /\ messages_received' = messages_received + 1
             /\ (decoded_ok' + decoded_fail') - (decoded_ok + decoded_fail) \in {0, 1}
      /\ messages_received' >= messages_received
      /\ decoded_ok' >= decoded_ok
      /\ decoded_fail' >= decoded_fail
      /\ text_messages_received' >= text_messages_received
      /\ decoded_ok' + decoded_fail' <= messages_received' ]_vars

\* two payloads handled: one failed to decode, the other carried nothing to
\* decode and moved neither decode counter
C38_Witness ==
  /\ messages_received = 2
  /\ decoded_ok = 0
  /\ decoded_fail = 1

\* C39: a successful broker connect makes is_connected() true and every
\* broker disconnect makes it false; it is false once stop() has returned;
\* a start() that fails leaves the service not running and starts no
\* worker; a start() while running opens no second client or worker.
C39_IsConnected ==
  [][ /\ OnBrokerConnect("Success") => mqtt_connected'
      /\ OnBrokerDisconnect => ~mqtt_connected'
      /\ mqttLastCall' = "stop" /\ stopPc' = "idle" => ~mqtt_connected'
      /\ Start /\ mqttLastCall' = "start_false" =>
           ~mqtt_running' /\ mqtt_thread' = mqtt_thread
      /\ Start /\ mqtt_running =>
           mqtt_client' = mqtt_client /\ mqtt_thread' = mqtt_thread ]_vars

\* the connect and disconnect handlers and start() alone: these hold
HandlersAndStart ==
  [][ /\ OnBrokerConnect("Success") => mqtt_connected'
      /\ OnBrokerDisconnect => ~mqtt_connected'
      /\ Start /\ mqttLastCall' = "start_false" =>
           ~mqtt_running' /\ mqtt_thread' = mqtt_thread
      /\ Start /\ mqtt_running =>
           mqtt_client' = mqtt_client /\ mqtt_thread' = mqtt_thread ]_vars

====
